---- MODULE Spec2Model ----
(***************************************************************************)
(* Model of the chord engine of the guitar fretboard visualizer            *)
(* (src/script.js): chord-name parsing, CAGED voicing generation,          *)
(* progression parsing and the dynamic-programming progression optimizer.  *)
(*                                                                         *)
(* A JavaScript string is a sequence of characters; a character is a       *)
(* one-character TLA+ string, except that a character outside ASCII is     *)
(* written by its code point ("U+00C3") and the line feed is LF.           *)
(* avgFret is a quotient of a fret sum by 3..6 sounded strings; it is kept *)
(* exactly, in sixtieths of a fret (AvgScale), and so is every cost.       *)
(***************************************************************************)
EXTENDS Integers, Sequences, FiniteSets, TLC

VARIABLES
    state,      \* the application state object (script.js:33-48)
    op,         \* the operation that ran last, "idle" between two events
    arg,        \* its arguments
    ret,        \* the value it returned
    threw,      \* whether it ended by throwing instead of returning
    locals,     \* the locals of the operation that outlive its steps
    tables,     \* the static tables, as the running program holds them
    timers      \* playIntervalId and the interval timers the browser runs

vars == <<state, op, arg, ret, threw, locals, tables, timers>>

\* an operation that keeps no locals of interest
noLocals == [none |-> TRUE]

---------------------------------------------------------------------------
(* Generic helpers *)

SetMin(S) == CHOOSE x \in S : \A y \in S : x <= y
SetMax(S) == CHOOSE x \in S : \A y \in S : x >= y
Abs(x) == IF x < 0 THEN -x ELSE x

RECURSIVE SumSeq(_)
SumSeq(s) == IF s = <<>> THEN 0 ELSE Head(s) + SumSeq(Tail(s))

RECURSIVE Filter(_, _)
\* Array.prototype.filter with the keep-set given as a set of indices
Filter(s, keep) ==
    IF s = <<>> THEN <<>>
    ELSE LET last == Len(s)
             init == Filter(SubSeq(s, 1, last - 1), keep)
         IN IF last \in keep THEN Append(init, s[last]) ELSE init

\* a const declaration: Body applied to value, with value computed once
Bind(value, Body(_)) == CHOOSE r \in {Body(v) : v \in {value}} : TRUE

\* an array built element by element: the sequence with the elements of s
ArrayOf(s) == SubSeq(s, 1, Len(s))

---------------------------------------------------------------------------
(* JavaScript values *)

\* null in a slot that otherwise holds a string: no character is named
\* "null", so no string equals it
null == <<"null">>
\* null in a slot that otherwise holds an object
nullObj == [null |-> TRUE]

LF == "LF"
UpperLetters == <<"A","B","C","D","E","F","G","H","I","J","K","L","M",
                  "N","O","P","Q","R","S","T","U","V","W","X","Y","Z">>
LowerLetters == <<"a","b","c","d","e","f","g","h","i","j","k","l","m",
                  "n","o","p","q","r","s","t","u","v","w","x","y","z">>

\* String.prototype.toUpperCase on one character
ToUpperChar(c) ==
    IF \E i \in 1..26 : LowerLetters[i] = c
    THEN UpperLetters[CHOOSE i \in 1..26 : LowerLetters[i] = c]
    ELSE IF c = "U+00E3" THEN "U+00C3"
    ELSE IF c = "U+00E2" THEN "U+00C2"
    ELSE c

\* \s of a regular expression, and what String.prototype.trim strips
IsSpace(c) == c \in {" ", LF}
\* what the regex dot does not match
IsLineTerminator(c) == c = LF

\* String.prototype.trim
Trim(s) ==
    LET idx == {i \in 1..Len(s) : ~IsSpace(s[i])}
    IN IF idx = {} THEN <<>> ELSE SubSeq(s, SetMin(idx), SetMax(idx))

\* String.prototype.includes for one character
Includes(s, c) == \E i \in 1..Len(s) : s[i] = c

\* /^p/ and /^p/i
StartsWith(s, p, ci) ==
    /\ Len(s) >= Len(p)
    /\ \A i \in 1..Len(p) :
          IF ci THEN ToUpperChar(s[i]) = ToUpperChar(p[i]) ELSE s[i] = p[i]

\* /p/ and /p/i, not anchored
Contains(s, p, ci) ==
    \E k \in 0..(Len(s) - Len(p)) : StartsWith(SubSeq(s, k + 1, Len(s)), p, ci)

---------------------------------------------------------------------------
(* Static tables *)

NOTE_NAMES == << <<"C">>, <<"C","#">>, <<"D">>, <<"D","#">>, <<"E">>, <<"F">>,
                 <<"F","#">>, <<"G">>, <<"G","#">>, <<"A">>, <<"A","#">>, <<"B">> >>

\* keyed by string number 1..6; values are pitch classes
OPEN_STRING_NOTES == <<4, 11, 7, 2, 9, 4>>

\* getNoteAtPosition's flatMap, keyed by pitch class
FlatName(i) ==
    CASE i = 1 -> <<"D","b">>
      [] i = 3 -> <<"E","b">>
      [] i = 6 -> <<"G","b">>
      [] i = 8 -> <<"A","b">>
      [] i = 10 -> <<"B","b">>
      [] OTHER -> NOTE_NAMES[i + 1]

\* a noteMap without the flat spellings
getNoteIndex_SharpsOnly(noteName) ==
    IF \E i \in 1..12 : NOTE_NAMES[i] = noteName
    THEN (CHOOSE i \in 1..12 : NOTE_NAMES[i] = noteName) - 1
    ELSE -1

\* pitch class of a note name, -1 when the name is not in noteMap
getNoteIndex(noteName) ==
    CASE noteName = <<"C">> -> 0
      [] noteName \in {<<"C","#">>, <<"D","b">>} -> 1
      [] noteName = <<"D">> -> 2
      [] noteName \in {<<"D","#">>, <<"E","b">>} -> 3
      [] noteName = <<"E">> -> 4
      [] noteName = <<"F">> -> 5
      [] noteName \in {<<"F","#">>, <<"G","b">>} -> 6
      [] noteName = <<"G">> -> 7
      [] noteName \in {<<"G","#">>, <<"A","b">>} -> 8
      [] noteName = <<"A">> -> 9
      [] noteName \in {<<"A","#">>, <<"B","b">>} -> 10
      [] noteName = <<"B">> -> 11
      [] OTHER -> -1

\* name of the note at a string and fret, respelled with flats on request
getNoteAtPosition(stringNum, fretNum, useFlats) ==
    LET openNoteIndex == OPEN_STRING_NOTES[stringNum]
        noteIndex == (openNoteIndex + fretNum) % 12
        noteName == NOTE_NAMES[noteIndex + 1]
    IN IF useFlats /\ Includes(noteName, "#") THEN FlatName(noteIndex) ELSE noteName

---------------------------------------------------------------------------
(* Chord name parser *)

\* one alternative of a quality pattern: ^text when anchored, text otherwise
Alt(anchored, text) == [anchored |-> anchored, text |-> text]

\* the ordered rule table of parseChordName; ci is the i flag
qualityPatterns == <<
    [alts |-> << Alt(TRUE, <<"m","7","b","5">>), Alt(TRUE, <<"m","i","n","7","b","5">>),
                 Alt(TRUE, <<"U+00C3","U+00B8">>) >>,
     ci |-> TRUE, quality |-> "m7b5"],
    [alts |-> << Alt(TRUE, <<"m","m","a","j","7">>), Alt(TRUE, <<"m","i","n","m","a","j","7">>) >>,
     ci |-> TRUE, quality |-> "mMaj7"],
    [alts |-> << Alt(TRUE, <<"m","7">>), Alt(TRUE, <<"m","i","n","7">>), Alt(FALSE, <<"-","7">>) >>,
     ci |-> FALSE, quality |-> "m7"],
    [alts |-> << Alt(TRUE, <<"m","9">>), Alt(TRUE, <<"m","i","n","9">>) >>,
     ci |-> FALSE, quality |-> "m9"],
    [alts |-> << Alt(TRUE, <<"m","6">>), Alt(TRUE, <<"m","i","n","6">>) >>,
     ci |-> FALSE, quality |-> "m6"],
    [alts |-> << Alt(TRUE, <<"m">>), Alt(TRUE, <<"m","i","n">>), Alt(FALSE, <<"-">>) >>,
     ci |-> FALSE, quality |-> "minor"],
    [alts |-> << Alt(TRUE, <<"m","a","j","7">>), Alt(TRUE, <<"M","7">>),
                 Alt(TRUE, <<"U+00CE","U+201D","7">>) >>,
     ci |-> FALSE, quality |-> "maj7"],
    [alts |-> << Alt(TRUE, <<"m","a","j","9">>), Alt(TRUE, <<"M","9">>) >>,
     ci |-> FALSE, quality |-> "maj9"],
    [alts |-> << Alt(TRUE, <<"d","i","m","7">>), Alt(TRUE, <<"U+00C2","U+00B0","7">>) >>,
     ci |-> TRUE, quality |-> "dim7"],
    [alts |-> << Alt(TRUE, <<"a","u","g","7">>), Alt(TRUE, <<"+","7">>) >>,
     ci |-> TRUE, quality |-> "aug7"],
    [alts |-> << Alt(TRUE, <<"7","s","u","s","4">>) >>, ci |-> TRUE, quality |-> "7sus4"],
    [alts |-> << Alt(TRUE, <<"a","d","d","9">>) >>, ci |-> TRUE, quality |-> "add9"],
    [alts |-> << Alt(TRUE, <<"s","u","s","2">>) >>, ci |-> TRUE, quality |-> "sus2"],
    [alts |-> << Alt(TRUE, <<"s","u","s","4">>), Alt(TRUE, <<"s","u","s">>) >>,
     ci |-> TRUE, quality |-> "sus4"],
    [alts |-> << Alt(TRUE, <<"d","i","m">>), Alt(TRUE, <<"U+00C2","U+00B0">>) >>,
     ci |-> TRUE, quality |-> "dim"],
    [alts |-> << Alt(TRUE, <<"a","u","g">>), Alt(TRUE, <<"+">>) >>,
     ci |-> TRUE, quality |-> "aug"],
    [alts |-> << Alt(TRUE, <<"9">>) >>, ci |-> TRUE, quality |-> "9"],
    [alts |-> << Alt(TRUE, <<"7">>) >>, ci |-> TRUE, quality |-> "7"],
    [alts |-> << Alt(TRUE, <<"6">>) >>, ci |-> TRUE, quality |-> "6"] >>

\* pattern.test(qualityPart)
PatternTest(rule, text) ==
    \E a \in 1..Len(rule.alts) :
        IF rule.alts[a].anchored
        THEN StartsWith(text, rule.alts[a].text, rule.ci)
        ELSE Contains(text, rule.alts[a].text, rule.ci)

\* the loop without its break: the last rule that matches wins
ClassifyQuality_NoBreak(text) ==
    LET hits == {r \in 1..Len(qualityPatterns) : PatternTest(qualityPatterns[r], text)}
    IN IF hits = {} THEN "major" ELSE qualityPatterns[SetMax(hits)].quality

\* the loop over the rule table: the first rule that matches wins, 'major'
\* when none does
ClassifyQuality(text) ==
    LET hits == {r \in 1..Len(qualityPatterns) : PatternTest(qualityPatterns[r], text)}
    IN IF hits = {} THEN "major" ELSE qualityPatterns[SetMin(hits)].quality

\* chordRegex = /^([A-Ga-g])([#b]?)(.*)$/ : the dot stops at a line
\* terminator and $ is the end of the input
ChordRegexMatches(s) ==
    /\ Len(s) >= 1
    /\ ToUpperChar(s[1]) \in {"A","B","C","D","E","F","G"}
    /\ \A i \in 2..Len(s) : ~IsLineTerminator(s[i])

\* String.prototype.split('/') : the pieces between slashes
RECURSIVE SplitSlash(_)
SplitSlash(s) ==
    LET idx == {i \in 1..Len(s) : s[i] = "/"}
    IN IF idx = {} THEN <<s>>
       ELSE LET k == SetMin(idx)
            IN <<SubSeq(s, 1, k - 1)>> \o SplitSlash(SubSeq(s, k + 1, Len(s)))

\* an input value: a string, or a value of another type (typeof !== 'string')
Str(chars) == [isString |-> TRUE, chars |-> chars]
NotAString == [isString |-> FALSE, chars |-> <<>>]

parseChordName(chordName) ==
    IF ~chordName.isString \/ chordName.chars = <<>> THEN nullObj
    ELSE LET s == Trim(chordName.chars)
         IN IF ~ChordRegexMatches(s) THEN nullObj
            ELSE LET rootLetter == ToUpperChar(s[1])
                     hasAcc == Len(s) >= 2 /\ s[2] \in {"#", "b"}
                     accidental == IF hasAcc THEN <<s[2]>> ELSE <<>>
                     rest == SubSeq(s, (IF hasAcc THEN 3 ELSE 2), Len(s))
                     parts == SplitSlash(rest)
                     qualityPart == IF Includes(rest, "/") THEN parts[1] ELSE rest
                     bass == IF Includes(rest, "/") THEN parts[2] ELSE null
                 IN [root |-> <<rootLetter>> \o accidental,
                     quality |-> ClassifyQuality(qualityPart),
                     bass |-> bass]

\* truthiness of parseChordName's result
Parses(chars) == parseChordName(Str(chars)) # nullObj

---------------------------------------------------------------------------
(* Voicing generator (CAGED system) *)

\* the unit of avgFret and of every cost: one sixtieth of a fret
AvgScale == 60

Shape(strings, rootString, rootFret, name) ==
    [strings |-> strings, rootString |-> rootString, rootFret |-> rootFret, name |-> name]

\* the five shape families in the order Object.entries yields them;
\* strings run from string 6 to string 1, -1 is a muted string
CAGED_SHAPES == <<
    [shapeName |-> "E", shapes |->
        ("major" :> Shape(<<0, 2, 2, 1, 0, 0>>, 6, 0, "E-shape")) @@
        ("minor" :> Shape(<<0, 2, 2, 0, 0, 0>>, 6, 0, "E-shape")) @@
        ("7"     :> Shape(<<0, 2, 0, 1, 0, 0>>, 6, 0, "E-shape")) @@
        ("m7"    :> Shape(<<0, 2, 0, 0, 0, 0>>, 6, 0, "E-shape")) @@
        ("maj7"  :> Shape(<<0, 2, 1, 1, 0, 0>>, 6, 0, "E-shape"))],
    [shapeName |-> "A", shapes |->
        ("major" :> Shape(<<-1, 0, 2, 2, 2, 0>>, 5, 0, "A-shape")) @@
        ("minor" :> Shape(<<-1, 0, 2, 2, 1, 0>>, 5, 0, "A-shape")) @@
        ("7"     :> Shape(<<-1, 0, 2, 0, 2, 0>>, 5, 0, "A-shape")) @@
        ("m7"    :> Shape(<<-1, 0, 2, 0, 1, 0>>, 5, 0, "A-shape")) @@
        ("maj7"  :> Shape(<<-1, 0, 2, 1, 2, 0>>, 5, 0, "A-shape"))],
    [shapeName |-> "D", shapes |->
        ("major" :> Shape(<<-1, -1, 0, 2, 3, 2>>, 4, 0, "D-shape")) @@
        ("minor" :> Shape(<<-1, -1, 0, 2, 3, 1>>, 4, 0, "D-shape")) @@
        ("7"     :> Shape(<<-1, -1, 0, 2, 1, 2>>, 4, 0, "D-shape")) @@
        ("m7"    :> Shape(<<-1, -1, 0, 2, 1, 1>>, 4, 0, "D-shape")) @@
        ("maj7"  :> Shape(<<-1, -1, 0, 2, 2, 2>>, 4, 0, "D-shape"))],
    [shapeName |-> "C", shapes |->
        ("major" :> Shape(<<-1, 3, 2, 0, 1, 0>>, 5, 3, "C-shape")) @@
        ("minor" :> Shape(<<-1, 3, 1, 0, 1, -1>>, 5, 3, "C-shape")) @@
        ("7"     :> Shape(<<-1, 3, 2, 3, 1, 0>>, 5, 3, "C-shape")) @@
        ("m7"    :> Shape(<<-1, 3, 1, 3, 1, -1>>, 5, 3, "C-shape")) @@
        ("maj7"  :> Shape(<<-1, 3, 2, 0, 0, 0>>, 5, 3, "C-shape"))],
    [shapeName |-> "G", shapes |->
        ("major" :> Shape(<<3, 2, 0, 0, 0, 3>>, 6, 3, "G-shape")) @@
        ("minor" :> Shape(<<3, 1, 0, 0, 3, 3>>, 6, 3, "G-shape")) @@
        ("7"     :> Shape(<<3, 2, 0, 0, 0, 1>>, 6, 3, "G-shape")) @@
        ("m7"    :> Shape(<<3, 1, 0, 0, 3, 1>>, 6, 3, "G-shape")) @@
        ("maj7"  :> Shape(<<3, 2, 0, 0, 0, 2>>, 6, 3, "G-shape"))] >>

\* generateAllVoicings' qualityMap[quality] || 'major'
\* the map with diminished sent to the major templates
qualityMap_DimMajor(quality) ==
    CASE quality \in {"major", "minor", "7", "m7", "maj7"} -> quality
      [] OTHER -> "major"

qualityMap(quality) ==
    CASE quality \in {"major", "minor", "7", "m7", "maj7"} -> quality
      [] quality = "dim" -> "minor"
      [] quality \in {"aug", "sus4", "sus2"} -> "major"
      [] OTHER -> "major"

\* the limit not enforced
BeyondLimit_Unchecked(actualFret, maxFret) == FALSE

\* the limit taken one fret too early
BeyondLimit_OffByOne(actualFret, maxFret) == actualFret >= maxFret

\* the fret limit of the forEach callback: a fret beyond it makes the
\* voicing invalid
BeyondLimit(actualFret, maxFret) == actualFret > maxFret

\* isRoot looked up in the sharp table alone, which has no flat names
IsRootAt_SharpTableOnly(stringNum, actualFret, rootIndex, useFlats) ==
    LET name == getNoteAtPosition(stringNum, actualFret, useFlats)
    IN (IF \E i \in 1..12 : NOTE_NAMES[i] = name
        THEN (CHOOSE i \in 1..12 : NOTE_NAMES[i] = name) - 1 ELSE -1) = rootIndex

\* isRoot of a pushed position: the note there has the root's pitch class
IsRootAt(stringNum, actualFret, rootIndex, useFlats) ==
    getNoteIndex(getNoteAtPosition(stringNum, actualFret, useFlats)) = rootIndex

\* the positions the forEach callback pushes, string 6 first
ShapePositions(shape, transpose, rootIndex, maxFret, useFlats) ==
    LET kept == {i \in 1..6 : /\ shape.strings[i] >= 0
                              /\ ~BeyondLimit(shape.strings[i] + transpose, maxFret)}
        all == [i \in 1..6 |->
                  LET stringNum == 6 - (i - 1)
                      actualFret == shape.strings[i] + transpose
                  IN [string |-> stringNum, fret |-> actualFret,
                      isRoot |-> (i \in kept /\ IsRootAt(stringNum, actualFret, rootIndex, useFlats))]]
    IN Filter(all, kept)

\* a voicing dropped as soon as it passes the twelfth fret, whatever maxFret
ShapeValid_TwelveFrets(shape, transpose, maxFret) ==
    \A i \in 1..6 : shape.strings[i] >= 0 => shape.strings[i] + transpose <= 12

\* validVoicing after the forEach
ShapeValid(shape, transpose, maxFret) ==
    \A i \in 1..6 : shape.strings[i] >= 0 => ~BeyondLimit(shape.strings[i] + transpose, maxFret)

\* minFret taken over the open strings too
BaseFretOf_OpenIncluded(positions) ==
    SetMin({positions[i].fret : i \in 1..Len(positions)})

\* minFret === Infinity ? 0 : minFret, where minFret is the least fret above
\* the nut
BaseFretOf(positions) ==
    LET fretted == {positions[i].fret : i \in 1..Len(positions)} \ {0}
    IN IF fretted = {} THEN 0 ELSE SetMin(fretted)

\* the transpose counted from the template's rootFret as well as from the
\* family's note, which moves the C and G families three frets off
FamilyVoicing_RootFretCounted(chordName, family, shapeQuality, rootIndex, maxFret, useFlats) ==
    LET shape == family.shapes[shapeQuality]
        baseNoteIndex == getNoteIndex(<<family.shapeName>>)
        transpose == (rootIndex - baseNoteIndex - shape.rootFret + 12) % 12
        positions == ShapePositions(shape, transpose, rootIndex, maxFret, useFlats)
        fretted == {positions[i].fret : i \in 1..Len(positions)} \ {0}
        minFret == BaseFretOf(positions)
        maxFretUsed == IF fretted = {} THEN 0 ELSE SetMax(fretted)
    IN IF ShapeValid(shape, transpose, maxFret) /\ Len(positions) >= 3
       THEN << [chordName |-> chordName,
                shapeName |-> shape.name,
                positions |-> positions,
                baseFret |-> minFret,
                avgFret |-> (AvgScale * SumSeq([i \in 1..Len(positions) |-> positions[i].fret]))
                               \div Len(positions),
                fretSpan |-> maxFretUsed - minFret] >>
       ELSE <<>>

\* the voicing one shape family contributes, as a list of zero or one voicing
FamilyVoicing(chordName, family, shapeQuality, rootIndex, maxFret, useFlats) ==
    LET shape == family.shapes[shapeQuality]
        baseNoteIndex == getNoteIndex(<<family.shapeName>>)
        transpose == (rootIndex - baseNoteIndex + 12) % 12
        positions == ShapePositions(shape, transpose, rootIndex, maxFret, useFlats)
        fretted == {positions[i].fret : i \in 1..Len(positions)} \ {0}
        minFret == BaseFretOf(positions)
        maxFretUsed == IF fretted = {} THEN 0 ELSE SetMax(fretted)
    IN IF ShapeValid(shape, transpose, maxFret) /\ Len(positions) >= 3
       THEN << [chordName |-> chordName,
                shapeName |-> shape.name,
                positions |-> positions,
                baseFret |-> minFret,
                avgFret |-> (AvgScale * SumSeq([i \in 1..Len(positions) |-> positions[i].fret]))
                               \div Len(positions),
                fretSpan |-> maxFretUsed - minFret] >>
       ELSE <<>>

\* Array.prototype.sort((a, b) => a.avgFret - b.avgFret): stable, ascending
RECURSIVE SortByAvgFret(_)
SortByAvgFret(vs) ==
    IF vs = <<>> THEN <<>>
    ELSE LET last == vs[Len(vs)]
             init == SortByAvgFret(SubSeq(vs, 1, Len(vs) - 1))
             before == {i \in 1..Len(init) : init[i].avgFret <= last.avgFret}
             k == IF before = {} THEN 0 ELSE SetMax(before)
         IN SubSeq(init, 1, k) \o <<last>> \o SubSeq(init, k + 1, Len(init))

\* the voicings pushed by the loop over the families, before the sort
RECURSIVE PushedVoicings(_, _, _, _, _, _)
PushedVoicings(chordName, n, shapeQuality, rootIndex, maxFret, useFlats) ==
    IF n = 0 THEN <<>>
    ELSE PushedVoicings(chordName, n - 1, shapeQuality, rootIndex, maxFret, useFlats)
           \o FamilyVoicing(chordName, CAGED_SHAPES[n], shapeQuality, rootIndex, maxFret, useFlats)

\* the list left in the order of the families
OrderVoicings_Unsorted(vs) == vs

\* the final ordering of the voicing list
OrderVoicings(vs) == SortByAvgFret(vs)

\* generateAllVoicings giving up on a root the semitone table lacks
generateAllVoicings_RejectsUnknownRoot(chordName, maxFret, useFlats) ==
    LET parsed == parseChordName(chordName)
    IN IF parsed = nullObj \/ getNoteIndex(parsed.root) = -1 THEN <<>>
       ELSE OrderVoicings(PushedVoicings(chordName.chars, Len(CAGED_SHAPES),
                                         qualityMap(parsed.quality),
                                         getNoteIndex(parsed.root), maxFret, useFlats))

generateAllVoicings(chordName, maxFret, useFlats) ==
    LET parsed == parseChordName(chordName)
    IN IF parsed = nullObj THEN <<>>
       ELSE OrderVoicings(PushedVoicings(chordName.chars, Len(CAGED_SHAPES),
                                         qualityMap(parsed.quality),
                                         getNoteIndex(parsed.root), maxFret, useFlats))

---------------------------------------------------------------------------
(* Interval table and single-voicing resolver *)

Qualities == {"major", "minor", "dim", "aug", "maj7", "7", "m7", "dim7", "m7b5", "mMaj7",
              "aug7", "9", "maj9", "m9", "add9", "6", "m6", "sus2", "sus4", "7sus4"}

\* semitone offsets from the root, per quality
CHORD_INTERVALS(quality) ==
    CASE quality = "major" -> <<0, 4, 7>>
      [] quality = "minor" -> <<0, 3, 7>>
      [] quality = "dim"   -> <<0, 3, 6>>
      [] quality = "aug"   -> <<0, 4, 8>>
      [] quality = "maj7"  -> <<0, 4, 7, 11>>
      [] quality = "7"     -> <<0, 4, 7, 10>>
      [] quality = "m7"    -> <<0, 3, 7, 10>>
      [] quality = "dim7"  -> <<0, 3, 6, 9>>
      [] quality = "m7b5"  -> <<0, 3, 6, 10>>
      [] quality = "mMaj7" -> <<0, 3, 7, 11>>
      [] quality = "aug7"  -> <<0, 4, 8, 10>>
      [] quality = "9"     -> <<0, 4, 7, 10, 14>>
      [] quality = "maj9"  -> <<0, 4, 7, 11, 14>>
      [] quality = "m9"    -> <<0, 3, 7, 10, 14>>
      [] quality = "add9"  -> <<0, 4, 7, 14>>
      [] quality = "6"     -> <<0, 4, 7, 9>>
      [] quality = "m6"    -> <<0, 3, 7, 9>>
      [] quality = "sus2"  -> <<0, 2, 7>>
      [] quality = "sus4"  -> <<0, 5, 7>>
      [] quality = "7sus4" -> <<0, 5, 7, 10>>
      [] OTHER -> <<>>

OpenShape(strings, rootString) == [strings |-> strings, rootString |-> rootString, baseFret |-> 0]

\* CHORD_SHAPES[`${prefix}_${quality}`], nullObj for a key the table lacks
CHORD_SHAPES(prefix, quality) ==
    CASE prefix = <<"E">> /\ quality = "major" -> OpenShape(<<0, 2, 2, 1, 0, 0>>, 6)
      [] prefix = <<"E">> /\ quality = "minor" -> OpenShape(<<0, 2, 2, 0, 0, 0>>, 6)
      [] prefix = <<"A">> /\ quality = "major" -> OpenShape(<<-1, 0, 2, 2, 2, 0>>, 5)
      [] prefix = <<"A">> /\ quality = "minor" -> OpenShape(<<-1, 0, 2, 2, 1, 0>>, 5)
      [] prefix = <<"D">> /\ quality = "major" -> OpenShape(<<-1, -1, 0, 2, 3, 2>>, 4)
      [] prefix = <<"D">> /\ quality = "minor" -> OpenShape(<<-1, -1, 0, 2, 3, 1>>, 4)
      [] prefix = <<"C">> /\ quality = "major" -> OpenShape(<<-1, 3, 2, 0, 1, 0>>, 5)
      [] prefix = <<"G">> /\ quality = "major" -> OpenShape(<<3, 2, 0, 0, 0, 3>>, 6)
      [] prefix = <<"E">> /\ quality = "7"     -> OpenShape(<<0, 2, 0, 1, 0, 0>>, 6)
      [] prefix = <<"E">> /\ quality = "m7"    -> OpenShape(<<0, 2, 0, 0, 0, 0>>, 6)
      [] prefix = <<"E">> /\ quality = "maj7"  -> OpenShape(<<0, 2, 1, 1, 0, 0>>, 6)
      [] prefix = <<"A">> /\ quality = "7"     -> OpenShape(<<-1, 0, 2, 0, 2, 0>>, 5)
      [] prefix = <<"A">> /\ quality = "m7"    -> OpenShape(<<-1, 0, 2, 0, 1, 0>>, 5)
      [] prefix = <<"A">> /\ quality = "maj7"  -> OpenShape(<<-1, 0, 2, 1, 2, 0>>, 5)
      [] prefix = <<"D">> /\ quality = "7"     -> OpenShape(<<-1, -1, 0, 2, 1, 2>>, 4)
      [] prefix = <<"D">> /\ quality = "m7"    -> OpenShape(<<-1, -1, 0, 2, 1, 1>>, 4)
      [] OTHER -> nullObj

\* the spelled notes of a chord, [] for an unknown quality or root
getChordNotes(root, quality) ==
    LET intervals == CHORD_INTERVALS(quality)
        rootIndex == getNoteIndex(root)
    IN IF intervals = <<>> \/ rootIndex = -1 THEN <<>>
       ELSE [i \in 1..Len(intervals) |-> NOTE_NAMES[((rootIndex + intervals[i]) % 12) + 1]]

\* a || b on shape objects
OrElse(a, b) == IF a # nullObj THEN a ELSE b

\* the shape with its transpose, nullObj when there is none
findChordShape(root, quality) ==
    LET rootIndex == getNoteIndex(root)
        shapeQuality == quality
        open == IF root \in {<<"E">>, <<"A">>, <<"D">>, <<"G">>, <<"C">>}
                THEN CHORD_SHAPES(root, shapeQuality) ELSE nullObj
        transposedFromE == (rootIndex - getNoteIndex(<<"E">>) + 12) % 12
        transposedFromA == (rootIndex - getNoteIndex(<<"A">>) + 12) % 12
        baseShape == IF transposedFromE <= 7
                     THEN OrElse(CHORD_SHAPES(<<"E">>, shapeQuality), CHORD_SHAPES(<<"E">>, "major"))
                     ELSE OrElse(CHORD_SHAPES(<<"A">>, shapeQuality), CHORD_SHAPES(<<"A">>, "major"))
        transpose == IF transposedFromE <= 7 THEN transposedFromE ELSE transposedFromA
    IN IF open # nullObj
       THEN [strings |-> open.strings, rootString |-> open.rootString,
             baseFret |-> open.baseFret, transpose |-> 0]
       ELSE IF baseShape # nullObj
       THEN [strings |-> baseShape.strings, rootString |-> baseShape.rootString,
             baseFret |-> baseShape.baseFret, transpose |-> transpose]
       ELSE nullObj

\* isRoot as shapeToPositions decides it
\* the root test by spelled name alone
ShapeIsRoot_NameOnly(noteAtPosition, root) == noteAtPosition = root

\* shapeToPositions' isRoot: the same name, or for a root with an accidental
\* the same pitch class
ShapeIsRoot(noteAtPosition, root) ==
    \/ noteAtPosition = root
    \/ (Len(root) > 1 /\ getNoteIndex(noteAtPosition) = getNoteIndex(root))

shapeToPositions(shape, root, useFlats) ==
    LET sounded == {i \in 1..6 : shape.strings[i] >= 0}
        all == [i \in 1..6 |->
                  LET stringNum == 6 - (i - 1)
                      actualFret == shape.strings[i] + shape.transpose
                      noteAtPosition ==
                          IF i \in sounded
                          THEN getNoteAtPosition(stringNum, actualFret, useFlats)
                          ELSE <<>>
                  IN [string |-> stringNum, fret |-> actualFret,
                      isRoot |-> ShapeIsRoot(noteAtPosition, root)]]
    IN Filter(all, sounded)

\* NOTE_NAMES.indexOf(name), -1 when the name is not in the sharp table
NoteNamesIndexOf(name) ==
    IF \E i \in 1..12 : NOTE_NAMES[i] = name
    THEN (CHOOSE i \in 1..12 : NOTE_NAMES[i] = name) - 1
    ELSE -1

\* the greedy scan: per string 6..1, the first fret in 0..5 that sounds a
\* chord tone
generateBasicVoicing(root, quality, useFlats) ==
    LET chordNotes == getChordNotes(root, quality)
        InChord(stringNum, fret) ==
            LET noteIndex == NoteNamesIndexOf(getNoteAtPosition(stringNum, fret, useFlats))
            IN \E n \in 1..Len(chordNotes) : getNoteIndex(chordNotes[n]) = noteIndex
        hit == {i \in 1..6 : \E fret \in 0..5 : InChord(6 - (i - 1), fret)}
        all == [i \in 1..6 |->
                  LET stringNum == 6 - (i - 1)
                      fret == IF i \in hit
                              THEN SetMin({f \in 0..5 : InChord(stringNum, f)}) ELSE 0
                  IN [string |-> stringNum, fret |-> fret,
                      isRoot |-> (NoteNamesIndexOf(getNoteAtPosition(stringNum, fret, useFlats))
                                     = getNoteIndex(root))]]
    IN IF chordNotes = <<>> THEN <<>> ELSE Filter(all, hit)

calculateChordPositions(chordName, useFlats) ==
    LET parsed == parseChordName(chordName)
    IN IF parsed = nullObj THEN <<>>
       ELSE LET shape == findChordShape(parsed.root, parsed.quality)
            IN IF shape # nullObj
               THEN shapeToPositions(shape, parsed.root, useFlats)
               ELSE generateBasicVoicing(parsed.root, parsed.quality, useFlats)

---------------------------------------------------------------------------
(* Progression optimizer *)

\* maxFret = 15, the default parameter of generateAllVoicings
DefaultMaxFret == 15

\* Infinity, as a cost no path reaches
Infinity == 1000000000

\* x + y on costs, where Infinity absorbs
CostPlus(x, y) == IF x = Infinity THEN Infinity ELSE x + y

\* no bonus for staying in a shape family
shapeBonus_None(voicing1, voicing2) == 0

\* the shape bonus of calculateMovementCost, in sixtieths
shapeBonus(voicing1, voicing2) ==
    IF voicing1.shapeName = voicing2.shapeName THEN -AvgScale ELSE 0

\* fretDiff * 2 + spanDiff * 0.5 + shapeBonus, in sixtieths
calculateMovementCost(voicing1, voicing2) ==
    LET fretDiff == Abs(voicing1.avgFret - voicing2.avgFret)
        spanDiff == Abs(voicing1.fretSpan - voicing2.fretSpan)
    IN fretDiff * 2 + (spanDiff * AvgScale) \div 2 + shapeBonus(voicing1, voicing2)

\* the filter with both ends of the range excluded
InRange_Strict(vs, preferredFret, fretRange) ==
    Filter(vs, {i \in 1..Len(vs) :
                  /\ vs[i].avgFret > AvgScale * (preferredFret - fretRange)
                  /\ vs[i].avgFret < AvgScale * (preferredFret + fretRange)})

\* voicings.filter(v => avgFret within preferredFret +- fretRange)
InRange(vs, preferredFret, fretRange) ==
    Filter(vs, {i \in 1..Len(vs) :
                  /\ vs[i].avgFret >= AvgScale * (preferredFret - fretRange)
                  /\ vs[i].avgFret <= AvgScale * (preferredFret + fretRange)})

\* allVoicings[i] without the expand-search loop
Candidates_NoFallback(chord, preferredFret, fretRange, useFlats) ==
    InRange(generateAllVoicings(Str(chord), DefaultMaxFret, useFlats), preferredFret, fretRange)

\* allVoicings[i] after the expand-search loop
Candidates(chord, preferredFret, fretRange, useFlats) ==
    Bind(generateAllVoicings(Str(chord), DefaultMaxFret, useFlats), LAMBDA voicings :
        Bind(InRange(voicings, preferredFret, fretRange), LAMBDA inRange :
            IF inRange = <<>> THEN voicings ELSE inRange))

\* the reduce of the single-chord case: the first voicing closest to
\* preferredFret
Closest(vs, preferredFret) ==
    LET dist(i) == Abs(vs[i].avgFret - AvgScale * preferredFret)
        best == {i \in 1..Len(vs) : \A k \in 1..Len(vs) : dist(i) <= dist(k)}
    IN vs[SetMin(best)]

\* dp[0]
FirstLayer(vs, preferredFret) ==
    ArrayOf([i \in 1..Len(vs) |->
                [cost |-> Abs(vs[i].avgFret - AvgScale * preferredFret), prev |-> -1]])

\* dp[i] from dp[i-1]: the loops over j and k, the first k that attains the
\* least total wins; prev is the 0-based index of the code
NextLayer(prevDp, prevVs, vs) ==
    ArrayOf([j \in 1..Len(vs) |->
        LET total(k) == CostPlus(prevDp[k].cost, calculateMovementCost(prevVs[k], vs[j]))
            better == {k \in 1..Len(prevVs) : total(k) < Infinity}
            least == {k \in better : \A m \in better : total(k) <= total(m)}
        IN IF better = {} THEN [cost |-> Infinity, prev |-> -1]
           ELSE [cost |-> total(SetMin(least)), prev |-> SetMin(least) - 1]])

\* the DP table, layers 1..i
RECURSIVE DpTable(_, _, _)
DpTable(allVoicings, i, preferredFret) ==
    IF i = 1 THEN << FirstLayer(allVoicings[1], preferredFret) >>
    ELSE Bind(DpTable(allVoicings, i - 1, preferredFret), LAMBDA below :
             Append(below, NextLayer(below[i - 1], allVoicings[i - 1], allVoicings[i])))

\* the 0-based index of the best ending voicing: the first of least cost,
\* 0 when no cost is below Infinity
BestEnding(layer) ==
    LET finite == {i \in 1..Len(layer) : layer[i].cost < Infinity}
        least == {i \in finite : \A k \in finite : layer[i].cost <= layer[k].cost}
    IN IF finite = {} THEN 0 ELSE SetMin(least) - 1

\* the backtrack loop from layer i down to layer 1, entered with lastIndex;
\* it throws when dp[i][lastIndex] is undefined
RECURSIVE Backtrack(_, _, _, _)
Backtrack(allVoicings, dp, i, lastIndex) ==
    IF i = 0 THEN [threw |-> FALSE, value |-> <<>>]
    ELSE IF lastIndex + 1 \notin 1..Len(dp[i]) THEN [threw |-> TRUE, value |-> <<>>]
    ELSE Bind(Backtrack(allVoicings, dp, i - 1, dp[i][lastIndex + 1].prev), LAMBDA below :
             [threw |-> below.threw,
              value |-> IF below.threw THEN <<>>
                        ELSE Append(below.value, allVoicings[i][lastIndex + 1])])

\* the path of the optimizer over its candidates
OptimalPath(allVoicings, n, preferredFret) ==
    IF n = 0 THEN [threw |-> FALSE, value |-> <<>>]
    ELSE IF n = 1
    THEN IF allVoicings[1] = <<>> THEN [threw |-> TRUE, value |-> <<>>]
         ELSE [threw |-> FALSE, value |-> << Closest(allVoicings[1], preferredFret) >>]
    ELSE Bind(DpTable(allVoicings, n, preferredFret), LAMBDA dp :
             Backtrack(allVoicings, dp, n, BestEnding(dp[n])))

optimizeProgression(chordNames, preferredFret, fretRange, useFlats) ==
    Bind(ArrayOf([i \in 1..Len(chordNames) |->
                    Candidates(chordNames[i], preferredFret, fretRange, useFlats)]),
         LAMBDA allVoicings :
             Bind(OptimalPath(allVoicings, Len(chordNames), preferredFret), LAMBDA path :
                 [threw |-> path.threw, value |-> path.value, allVoicings |-> allVoicings]))

---------------------------------------------------------------------------
(* Progression parser *)

IsSeparator(c) == c \in {",", "-"}

\* where /[,\-]+|\s{2,}/ matches at position i of s
PrimaryMatchAt(s, i) ==
    \/ IsSeparator(s[i])
    \/ (IsSpace(s[i]) /\ i + 1 <= Len(s) /\ IsSpace(s[i + 1]))

\* the end of the greedy match that starts at i
PrimaryMatchEnd(s, i) ==
    IF IsSeparator(s[i])
    THEN SetMax({k \in i..Len(s) : \A m \in i..k : IsSeparator(s[m])})
    ELSE SetMax({k \in i..Len(s) : \A m \in i..k : IsSpace(s[m])})

\* input.split(/[,\-]+|\s{2,}/)
RECURSIVE SplitPrimary(_)
SplitPrimary(s) ==
    LET starts == {i \in 1..Len(s) : PrimaryMatchAt(s, i)}
    IN IF starts = {} THEN <<s>>
       ELSE LET i == SetMin(starts)
            IN <<SubSeq(s, 1, i - 1)>> \o SplitPrimary(SubSeq(s, PrimaryMatchEnd(s, i) + 1, Len(s)))

\* s.split(/\s+/)
RECURSIVE SplitSpaces(_)
SplitSpaces(s) ==
    LET starts == {i \in 1..Len(s) : IsSpace(s[i])}
    IN IF starts = {} THEN <<s>>
       ELSE LET i == SetMin(starts)
                e == SetMax({k \in i..Len(s) : \A m \in i..k : IsSpace(s[m])})
            IN <<SubSeq(s, 1, i - 1)>> \o SplitSpaces(SubSeq(s, e + 1, Len(s)))

\* .map(s => s.trim()).filter(Boolean)
TrimmedNonEmpty(pieces) ==
    LET trimmed == [i \in 1..Len(pieces) |-> Trim(pieces[i])]
    IN Filter(trimmed, {i \in 1..Len(trimmed) : trimmed[i] # <<>>})

\* the retry accepted without validating its tokens
RetryAccepted_Unvalidated(spaceParts) == Len(spaceParts) > 1

\* whether the single-space retry is accepted
RetryAccepted(spaceParts) ==
    Len(spaceParts) > 1 /\ \A i \in 1..Len(spaceParts) : Parses(spaceParts[i])

\* the parts returned without the final validation
ValidChords_Unfiltered(parts) == parts

\* parts.filter(p => parseChordName(p))
ValidChords(parts) == Filter(parts, {i \in 1..Len(parts) : Parses(parts[i])})

parseProgression(input) ==
    IF input = <<>> THEN <<>>
    ELSE Bind(TrimmedNonEmpty(SplitPrimary(input)), LAMBDA parts :
             Bind(SplitSpaces(Trim(input)), LAMBDA spaceParts :
                 IF Len(parts) = 1 /\ RetryAccepted(spaceParts) THEN spaceParts
                 ELSE ValidChords(parts)))

---------------------------------------------------------------------------
(* Search handlers *)

\* the defaults of optimizeProgression's options
DefaultPreferredFret == 5
DefaultFretRange == 7

\* /[,\-]/.test(input) || input.trim().split(/\s+/).length > 1
isProgression(input) ==
    /\ input # <<>>
    /\ \/ \E i \in 1..Len(input) : IsSeparator(input[i])
       \/ Len(SplitSpaces(Trim(input))) > 1

\* CONFIG.strings and CONFIG.frets: the board createFretboard builds has a
\* position element for strings 1..6 and frets 0..22
CONFIG == [strings |-> 6, frets |-> 22]

\* document.getElementById(getPositionId(stringNum, fretNum)) finds an element
OnFretboard(stringNum, fretNum) ==
    stringNum \in 1..CONFIG.strings /\ fretNum \in 0..CONFIG.frets

\* highlightChord: clearAllHighlights empties activeNotes and sets
\* currentChord to null, then highlightPosition pushes each position not
\* already there
highlightChord(st, positions) ==
    LET first == {i \in 1..Len(positions) :
                    /\ OnFretboard(positions[i].string, positions[i].fret)
                    /\ \A k \in 1..(i - 1) : \/ ~OnFretboard(positions[k].string, positions[k].fret)
                                             \/ positions[k].string # positions[i].string
                                             \/ positions[k].fret # positions[i].fret}
        notes == [i \in 1..Len(positions) |->
                    [string |-> positions[i].string, fret |-> positions[i].fret,
                     isRoot |-> positions[i].isRoot]]
    IN [st EXCEPT !.activeNotes = Filter(notes, first), !.currentChord = null]

\* displayVoicing: nothing without a voicing; else currentChord is set, then
\* highlightChord clears it
displayVoicing(st, voicing) ==
    IF voicing = nullObj THEN st
    ELSE highlightChord([st EXCEPT !.currentChord = voicing.chordName], voicing.positions)

\* displayChord: nothing when no position is found
displayChord(st, chordName) ==
    Bind(calculateChordPositions(Str(chordName), st.useFlats), LAMBDA positions :
        IF positions = <<>> THEN st
        ELSE highlightChord([st EXCEPT !.currentChord = chordName], positions))

\* loadProgression with the default options: the state it leaves, or the
\* state untouched when optimizeProgression throws
loadProgression(st, chords) ==
    IF chords = <<>> THEN [threw |-> FALSE, state |-> st, optimized |-> <<>>]
    ELSE Bind(optimizeProgression(chords, DefaultPreferredFret, DefaultFretRange,
                                  st.useFlats),
              LAMBDA optimizedVoicings :
        IF optimizedVoicings.threw
        THEN [threw |-> TRUE, state |-> st, optimized |-> <<chords>>]
        ELSE LET loaded == [st EXCEPT !.progression.chords = chords,
                                      !.progression.voicings = optimizedVoicings.value,
                                      !.progression.currentIndex = 0,
                                      !.progression.isPlaying = FALSE]
             IN [threw |-> FALSE,
                 state |-> IF optimizedVoicings.value # <<>>
                           THEN displayVoicing(loaded, optimizedVoicings.value[1])
                           ELSE loaded,
                 optimized |-> <<chords>>])

\* handleSearch answers 'chord' when the query parses and spells notes
IsChordQuery(query) ==
    /\ Trim(query) # <<>>
    /\ Parses(query)
    /\ getChordNotes(parseChordName(Str(query)).root, parseChordName(Str(query)).quality) # <<>>

\* performSearch: a chord is displayed; song results, no results and the
\* empty query touch the page only
performSearch(st, query) ==
    IF IsChordQuery(query) THEN displayChord(st, query) ELSE st

---------------------------------------------------------------------------
(* Song search *)

\* String.prototype.toLowerCase on one character
ToLowerChar(c) ==
    IF \E i \in 1..26 : UpperLetters[i] = c
    THEN LowerLetters[CHOOSE i \in 1..26 : UpperLetters[i] = c]
    ELSE c

\* String.prototype.toLowerCase
toLowerCase(s) == [i \in 1..Len(s) |-> ToLowerChar(s[i])]

\* String.prototype.includes for a text
StringIncludes(s, p) == Contains(s, p, FALSE)

\* the mock song table, in the order Object.entries walks it; entry is the
\* property name the song is stored under
SONG_DATABASE == <<
    [entry  |-> <<"w","o","n","d","e","r","w","a","l","l">>,
     title  |-> <<"W","o","n","d","e","r","w","a","l","l">>,
     artist |-> <<"O","a","s","i","s">>,
     chords |-> << <<"E","m","7">>, <<"G">>, <<"D","s","u","s","4">>, <<"A","7","s","u","s","4">> >>,
     key    |-> <<"E"," ","m","i","n","o","r">>],
    [entry  |-> <<"h","o","t","e","l"," ","c","a","l","i","f","o","r","n","i","a">>,
     title  |-> <<"H","o","t","e","l"," ","C","a","l","i","f","o","r","n","i","a">>,
     artist |-> <<"E","a","g","l","e","s">>,
     chords |-> << <<"A","m">>, <<"E","7">>, <<"G">>, <<"D">>, <<"F">>, <<"C">>, <<"D","m">>, <<"E">> >>,
     key    |-> <<"B"," ","m","i","n","o","r">>],
    [entry  |-> <<"w","i","s","h"," ","y","o","u"," ","w","e","r","e"," ","h","e","r","e">>,
     title  |-> <<"W","i","s","h"," ","Y","o","u"," ","W","e","r","e"," ","H","e","r","e">>,
     artist |-> <<"P","i","n","k"," ","F","l","o","y","d">>,
     chords |-> << <<"E","m","7">>, <<"G">>, <<"A","7","s","u","s","4">>, <<"C">>, <<"D">>, <<"A","m">> >>,
     key    |-> <<"G"," ","m","a","j","o","r">>],
    [entry  |-> <<"s","t","a","i","r","w","a","y"," ","t","o"," ","h","e","a","v","e","n">>,
     title  |-> <<"S","t","a","i","r","w","a","y"," ","t","o"," ","H","e","a","v","e","n">>,
     artist |-> <<"L","e","d"," ","Z","e","p","p","e","l","i","n">>,
     chords |-> << <<"A","m">>, <<"E","+">>, <<"C">>, <<"D">>, <<"F","m","a","j","7">>, <<"G">>, <<"A","m","7">> >>,
     key    |-> <<"A"," ","m","i","n","o","r">>],
    [entry  |-> <<"h","a","l","l","e","l","u","j","a","h">>,
     title  |-> <<"H","a","l","l","e","l","u","j","a","h">>,
     artist |-> <<"L","e","o","n","a","r","d"," ","C","o","h","e","n">>,
     chords |-> << <<"C">>, <<"A","m">>, <<"F">>, <<"G">>, <<"E","7">> >>,
     key    |-> <<"C"," ","m","a","j","o","r">>],
    [entry  |-> <<"b","l","a","c","k","b","i","r","d">>,
     title  |-> <<"B","l","a","c","k","b","i","r","d">>,
     artist |-> <<"T","h","e"," ","B","e","a","t","l","e","s">>,
     chords |-> << <<"G">>, <<"A","m","7">>, <<"G","/","B">>, <<"C">>, <<"A","7">>, <<"D","7">> >>,
     key    |-> <<"G"," ","m","a","j","o","r">>],
    [entry  |-> <<"n","o","t","h","i","n","g"," ","e","l","s","e"," ","m","a","t","t","e","r","s">>,
     title  |-> <<"N","o","t","h","i","n","g"," ","E","l","s","e"," ","M","a","t","t","e","r","s">>,
     artist |-> <<"M","e","t","a","l","l","i","c","a">>,
     chords |-> << <<"E","m">>, <<"A","m">>, <<"C">>, <<"D">>, <<"G">>, <<"B","7">> >>,
     key    |-> <<"E"," ","m","i","n","o","r">>],
    [entry  |-> <<"h","o","u","s","e"," ","o","f"," ","t","h","e"," ","r","i","s","i","n","g"," ","s","u","n">>,
     title  |-> <<"H","o","u","s","e"," ","o","f"," ","t","h","e"," ","R","i","s","i","n","g"," ","S","u","n">>,
     artist |-> <<"T","h","e"," ","A","n","i","m","a","l","s">>,
     chords |-> << <<"A","m">>, <<"C">>, <<"D">>, <<"F">>, <<"E">> >>,
     key    |-> <<"A"," ","m","i","n","o","r">>],
    [entry  |-> <<"s","w","e","e","t"," ","h","o","m","e"," ","a","l","a","b","a","m","a">>,
     title  |-> <<"S","w","e","e","t"," ","H","o","m","e"," ","A","l","a","b","a","m","a">>,
     artist |-> <<"L","y","n","y","r","d"," ","S","k","y","n","y","r","d">>,
     chords |-> << <<"D">>, <<"C">>, <<"G">> >>,
     key    |-> <<"D"," ","m","a","j","o","r">>],
    [entry  |-> <<"k","n","o","c","k","i","n"," ","o","n"," ","h","e","a","v","e","n","s"," ","d","o","o","r">>,
     title  |-> <<"K","n","o","c","k","i","n","'"," ","o","n"," ","H","e","a","v","e","n","'","s"," ","D","o","o","r">>,
     artist |-> <<"B","o","b"," ","D","y","l","a","n">>,
     chords |-> << <<"G">>, <<"D">>, <<"A","m">>, <<"C">> >>,
     key    |-> <<"G"," ","m","a","j","o","r">>] >>

\* the songs whose entry name, title or artist holds the query, whatever
\* the case of the query
searchSongs(query) ==
    IF query = <<>> \/ Trim(query) = <<>> THEN <<>>
    ELSE Bind(Trim(toLowerCase(query)), LAMBDA normalizedQuery :
             Filter(SONG_DATABASE,
                    {i \in 1..Len(SONG_DATABASE) :
                        \/ StringIncludes(SONG_DATABASE[i].entry, normalizedQuery)
                        \/ StringIncludes(toLowerCase(SONG_DATABASE[i].title), normalizedQuery)
                        \/ StringIncludes(toLowerCase(SONG_DATABASE[i].artist), normalizedQuery)}))

\* the parsed chord with its name and notes, nullObj when the query does
\* not parse
searchChords(query) ==
    Bind(parseChordName(Str(query)), LAMBDA parsed :
        IF parsed # nullObj
        THEN [name |-> query, root |-> parsed.root, quality |-> parsed.quality,
              bass |-> parsed.bass, notes |-> getChordNotes(parsed.root, parsed.quality)]
        ELSE nullObj)

\* the chord reading of the query is tried first, the song table second
handleSearch(query) ==
    IF query = <<>> \/ Trim(query) = <<>> THEN [type |-> "empty", result |-> nullObj]
    ELSE Bind(searchChords(query), LAMBDA chordResult :
             IF chordResult # nullObj /\ Len(chordResult.notes) > 0
             THEN [type |-> "chord", result |-> chordResult]
             ELSE Bind(searchSongs(query), LAMBDA songResults :
                      IF Len(songResults) > 0
                      THEN [type |-> "songs", result |-> songResults]
                      ELSE [type |-> "notfound", result |-> nullObj]))

---------------------------------------------------------------------------
(* Progression player *)

\* the upper test left out: any index from 0 up is taken
goToChord_NoUpperCheck(st, index) ==
    IF index < 0 THEN st
    ELSE IF index >= Len(st.progression.voicings)
         THEN [st EXCEPT !.progression.currentIndex = index]
         ELSE displayVoicing([st EXCEPT !.progression.currentIndex = index],
                             st.progression.voicings[index + 1])

\* goToChord: an index outside the voicings is ignored; voicings[index] is
\* always a voicing with positions, which displayVoicing shows
goToChord(st, index) ==
    IF index < 0 \/ index >= Len(st.progression.voicings) THEN st
    ELSE displayVoicing([st EXCEPT !.progression.currentIndex = index],
                        st.progression.voicings[index + 1])

\* the wrap to the first chord taken whatever loopEnabled says
nextChord_AlwaysWraps(st) ==
    LET currentIndex == st.progression.currentIndex
        voicings == st.progression.voicings
        nextIndex == IF currentIndex + 1 >= Len(voicings) THEN 0 ELSE currentIndex + 1
    IN goToChord(st, nextIndex)

nextChord(st) ==
    LET currentIndex == st.progression.currentIndex
        voicings == st.progression.voicings
        loopEnabled == st.progression.loopEnabled
        nextIndex == IF currentIndex + 1 >= Len(voicings)
                     THEN (IF loopEnabled THEN 0 ELSE Len(voicings) - 1)
                     ELSE currentIndex + 1
    IN goToChord(st, nextIndex)

prevChord(st) ==
    LET currentIndex == st.progression.currentIndex
        voicings == st.progression.voicings
        loopEnabled == st.progression.loopEnabled
        prevIndex == IF currentIndex - 1 < 0
                     THEN (IF loopEnabled THEN Len(voicings) - 1 ELSE 0)
                     ELSE currentIndex - 1
    IN goToChord(st, prevIndex)

toggleLoop(st) == [st EXCEPT !.progression.loopEnabled = ~@]

\* the id setInterval hands out: a positive number no running timer has
FreshTimerId(active) ==
    CHOOSE id \in 1..(Cardinality(active) + 1) :
        id \notin active /\ \A k \in 1..(id - 1) : k \in active

\* the player's world: the state object with playIntervalId and the running
\* interval timers; playIntervalId 0 stands for null
World(st, tm) == [state |-> st, timers |-> tm]

\* startPlay: a new interval timer is started and its id kept
startPlay(w) ==
    LET id == FreshTimerId(w.timers.active)
    IN World([w.state EXCEPT !.progression.isPlaying = TRUE],
             [playIntervalId |-> id, active |-> w.timers.active \cup {id}])

\* stopPlay: the timer playIntervalId names is cleared, if it names one
stopPlay(w) ==
    World([w.state EXCEPT !.progression.isPlaying = FALSE],
          IF w.timers.playIntervalId # 0
          THEN [playIntervalId |-> 0, active |-> w.timers.active \ {w.timers.playIntervalId}]
          ELSE w.timers)

togglePlay(w) == IF w.state.progression.isPlaying THEN stopPlay(w) ELSE startPlay(w)

\* the input handler of the tempo slider
tempoInput(w, value) ==
    LET set == World([w.state EXCEPT !.progression.tempo = value], w.timers)
    IN IF set.state.progression.isPlaying THEN startPlay(stopPlay(set)) ELSE set

\* the keys '1'..'9', in the order of their values
DigitKeys == <<"1", "2", "3", "4", "5", "6", "7", "8", "9">>

\* parseInt(e.key) for a digit key
ParseIntKey(key) == CHOOSE n \in 1..9 : DigitKeys[n] = key

\* the keydown listener of initKeyboardShortcuts; tagName is that of the
\* event's target
keydown(w, key, tagName) ==
    IF w.state.progression.chords = <<>> THEN w
    ELSE IF tagName = "INPUT" THEN w
    ELSE CASE key = "ArrowLeft" -> World(prevChord(w.state), w.timers)
           [] key = "ArrowRight" -> World(nextChord(w.state), w.timers)
           [] key = " " -> togglePlay(w)
           [] key \in {DigitKeys[n] : n \in 1..9} ->
                 IF ParseIntKey(key) - 1 < Len(w.state.progression.chords)
                 THEN World(goToChord(w.state, ParseIntKey(key) - 1), w.timers)
                 ELSE w
           [] OTHER -> w

---------------------------------------------------------------------------
(* Inputs *)

\* the longest chord progression handed to the optimizer
MaxChords == 3
\* the largest number of tokens joined into a progression text
MaxTokens == 3

RootLetters == {"A", "B", "C", "D", "E", "F", "G", "a", "g"}
Accidentals == {<<>>, <<"#">>, <<"b">>}
RootTexts == {<<l>> \o a : l \in RootLetters, a \in Accidentals}

\* the canonical quality texts, in the order of the rule table
CanonicalTexts == <<
    <<"m","7","b","5">>, <<"m","m","a","j","7">>, <<"m","7">>, <<"m","9">>, <<"m","6">>,
    <<"m">>, <<"m","a","j","7">>, <<"m","a","j","9">>, <<"d","i","m","7">>,
    <<"a","u","g","7">>, <<"7","s","u","s","4">>, <<"a","d","d","9">>, <<"s","u","s","2">>,
    <<"s","u","s","4">>, <<"d","i","m">>, <<"a","u","g">>, <<"9">>, <<"7">>, <<"6">> >>

\* the quality each canonical text stands for
CanonicalQuality == <<
    "m7b5", "mMaj7", "m7", "m9", "m6", "minor", "maj7", "maj9", "dim7", "aug7", "7sus4",
    "add9", "sus2", "sus4", "dim", "aug", "9", "7", "6" >>

\* other quality texts: synonyms, unknown text, slash chords, a line feed
OtherTexts == {
    <<>>, <<"m","i","n","7">>, <<"M","7">>, <<"M","9">>, <<"m","i","n">>, <<"m","a","j">>,
    <<"-","7">>, <<"-">>, <<"7","-","9">>, <<"9","-","5">>, <<"s","u","s">>, <<"+">>,
    <<"D","I","M">>, <<"x">>, <<"/","G">>, <<"m","7","/","G","/","B">>, <<" ">>,
    <<"U+00E3","U+00B8">>, <<LF,"m">>, <<"m",LF>> }

QualityTexts == {CanonicalTexts[i] : i \in 1..Len(CanonicalTexts)} \cup OtherTexts

\* texts that name no chord
JunkTexts == {<<>>, <<" ">>, <<"x","x">>, <<"y","y">>, <<"H">>, <<"#","A">>, <<"1">>,
              <<"m","7">>, <<LF>>, <<",">>}

\* the values handed to parseChordName
ChordInputs ==
    {Str(r \o q) : r \in RootTexts, q \in QualityTexts}
      \cup {Str(<<" ">> \o r \o <<"m","7"," ">>) : r \in RootTexts}
      \cup {Str(j) : j \in JunkTexts} \cup {NotAString}

\* the quality texts that reach every shape quality and the approximations
VoicingTexts == {<<>>, <<"m">>, <<"7">>, <<"m","7">>, <<"M","7">>, <<"d","i","m">>,
                 <<"a","u","g">>, <<"s","u","s","2">>, <<"s","u","s","4">>, <<"9">>}

VoicingInputs ==
    {Str(r \o q) : r \in RootTexts, q \in VoicingTexts} \cup {Str(<<"x","x">>), NotAString}

\* fret limits handed to generateAllVoicings
MaxFrets == {0, 1, 2, 3, 4, 5, 7, 10, 12, 14, 15, 22}

\* chord names handed to the optimizer
OptChords == << <<"A","m">>, <<"C">>, <<"G","7">>, <<"F","#","m","a","j","7">>, <<"x","x">> >>

\* {preferredFret, fretRange} options handed to the optimizer
OptOptions == {<<5, 7>>, <<0, 12>>, <<12, 1>>, <<3, 2>>}

\* chords with an open voicing: the roots the shape families are named
\* after, with a quality text for each quality that has templates
OpenRoots == {<<"E">>, <<"A">>, <<"D">>, <<"G">>, <<"C">>}
OpenQualityTexts == {<<>>, <<"m">>, <<"7">>, <<"m","7">>, <<"M","7">>}
OpenChords == {r \o q : r \in OpenRoots, q \in OpenQualityTexts}

\* roots and qualities handed to getChordNotes: the spellings a parse can
\* yield, the empty text, and the quality tags with one the table lacks
NoteRoots == RootTexts \cup {<<>>}
NoteQualities == Qualities \cup {"power"}

\* tokens and separators joined into progression texts
ProgTokens == << <<"A","m">>, <<"C">>, <<"G">>, <<"x","x">>, <<"y","y">>, <<"C"," ","D">> >>
ProgSeparators == {<<",">>, <<","," ">>, <<" ","-"," ">>, <<"-">>, <<" "," ">>, <<" ">>}

\* the separators of the primary split: commas or hyphens with optional
\* spaces around them, or two or more spaces
PrimarySeparators == ProgSeparators \ {<<" ">>}

\* the sequences of length 1..n over 1..k
SeqsUpTo(n, k) == UNION {[1..m -> 1..k] : m \in 1..n}

\* the calls of the optimizer: progressions of up to MaxChords chords of
\* OptChords under every option, and the pairs of open chords searched from
\* the nut over twelve frets
OptimizerCalls ==
    ({[i \in 1..Len(idx) |-> OptChords[idx[i]]] :
         idx \in SeqsUpTo(MaxChords, Len(OptChords)) \cup {<<>>}} \X OptOptions)
      \cup ({<<a, b>> : a \in OpenChords, b \in OpenChords} \X {<<0, 12>>})

\* tokens and separators joined into search texts: two chords, a chord
\* whose root the semitone table lacks, and a text that names no chord
SearchTokens == << <<"A","m">>, <<"C">>, <<"E","#","d","i","m">>, <<"x","x">> >>
SearchSeparators == {<<",", " ">>, <<" ">>, <<"-">>}

\* tokens joined by a separator
RECURSIVE Join(_, _)
Join(tokens, sep) ==
    IF Len(tokens) = 0 THEN <<>>
    ELSE IF Len(tokens) = 1 THEN tokens[1]
    ELSE tokens[1] \o sep \o Join(Tail(tokens), sep)

\* the texts typed into the search box on the way to a song: every
\* beginning of a title, an artist or an entry name, and the empty text
SongTexts ==
    UNION {{SONG_DATABASE[i].title, SONG_DATABASE[i].artist, SONG_DATABASE[i].entry} :
              i \in 1..Len(SONG_DATABASE)}
SongQueries == UNION {{SubSeq(t, 1, n) : n \in 0..Len(t)} : t \in SongTexts}

\* roots and qualities handed to findChordShape: the roots a parse can
\* yield and the quality tags of the rule table
ResolverRoots == {<<l>> \o a : l \in {"A", "B", "C", "D", "E", "F", "G"}, a \in Accidentals}

\* the most interval timers the browser is let run at once
MaxTimers == 2

\* the parsed chord lists handed to loadProgression by the player
PlayerProgressions ==
    { << <<"A","m">> >>,
      << <<"C">>, <<"G","7">> >>,
      << <<"A","m">>, <<"C">>, <<"E","#","d","i","m">> >> }

\* the indices handed to goToChord
GoToIndices == -2..4

\* the values the tempo slider is moved to
Tempos == {120}

\* the keys pressed, and the elements they are pressed on
Keys == {"ArrowLeft", "ArrowRight", " ", "1", "2", "3", "4", "9", "x"}
TagNames == {"BODY", "INPUT"}

\* the names handed to displayChord: the open chords, two barre chords and
\* two texts without positions
DisplayChords ==
    OpenChords \cup {<<"F","#","m","7">>, <<"B","b","d","i","m">>, <<"x","x">>, <<>>}

\* the chords whose voicings are handed to displayVoicing
DisplayVoicingChords == {<<"A","m">>, <<"F","#","m","7">>}

---------------------------------------------------------------------------
(* The state machine *)

\* the qualities CHORD_SHAPES and CAGED_SHAPES hold templates for
ShapeQualities == {"major", "minor", "7", "m7", "maj7"}

\* the tables as the declarations at load time leave them
StaticTables ==
    [NOTE_NAMES |-> NOTE_NAMES,
     OPEN_STRING_NOTES |-> OPEN_STRING_NOTES,
     CHORD_INTERVALS |-> [q \in Qualities |-> CHORD_INTERVALS(q)],
     CHORD_SHAPES |-> [k \in OpenRoots \X ShapeQualities |-> CHORD_SHAPES(k[1], k[2])],
     CAGED_SHAPES |-> CAGED_SHAPES]

Init ==
    /\ state = [activeNotes |-> <<>>,
                currentChord |-> null,
                useFlats |-> FALSE,
                soundEnabled |-> TRUE,
                progression |-> [chords |-> <<>>,
                                 voicings |-> <<>>,
                                 currentIndex |-> 0,
                                 isPlaying |-> FALSE,
                                 tempo |-> 80,
                                 beatsPerChord |-> 2,
                                 loopEnabled |-> TRUE]]
    /\ op = "idle"
    /\ arg = [none |-> TRUE]
    /\ ret = <<>>
    /\ threw = FALSE
    /\ locals = noLocals
    /\ tables = StaticTables
    /\ timers = [playIntervalId |-> 0, active |-> {}]

\* the Sharps / Flats buttons
SetNotationMode ==
    /\ op = "idle"
    /\ \E useFlats \in BOOLEAN :
          /\ state' = [state EXCEPT !.useFlats = useFlats]
          /\ op' = "setNotationMode"
          /\ arg' = [useFlats |-> useFlats]
          /\ ret' = <<>>
          /\ threw' = FALSE
          /\ UNCHANGED <<locals, tables, timers>>

ParseChordNameCall ==
    /\ op = "idle"
    /\ \E chordName \in ChordInputs :
          /\ op' = "parseChordName"
          /\ arg' = [chordName |-> chordName]
          /\ ret' = parseChordName(chordName)
          /\ threw' = FALSE
          /\ UNCHANGED <<state, locals, tables, timers>>

GenerateAllVoicingsCall ==
    /\ op = "idle"
    /\ \E chordName \in VoicingInputs, maxFret \in MaxFrets :
          /\ op' = "generateAllVoicings"
          /\ arg' = [chordName |-> chordName, maxFret |-> maxFret]
          /\ ret' = generateAllVoicings(chordName, maxFret, state.useFlats)
          /\ threw' = FALSE
          /\ UNCHANGED <<state, locals, tables, timers>>

\* findChordShape handing out the table's own entry with transpose written
\* into it, in place of a copy
CalculateChordPositionsCall_SharedShape ==
    /\ op = "idle"
    /\ \E chordName \in ChordInputs :
          /\ op' = "calculateChordPositions"
          /\ arg' = [chordName |-> chordName]
          /\ ret' = calculateChordPositions(chordName, state.useFlats)
          /\ threw' = FALSE
          /\ tables' = [tables EXCEPT !.CHORD_SHAPES[<< <<"E">>, "major" >>] =
                            [strings |-> @.strings, rootString |-> @.rootString,
                             baseFret |-> @.baseFret, transpose |-> 0]]
          /\ UNCHANGED <<state, locals, timers>>

CalculateChordPositionsCall ==
    /\ op = "idle"
    /\ \E chordName \in ChordInputs :
          /\ op' = "calculateChordPositions"
          /\ arg' = [chordName |-> chordName]
          /\ ret' = calculateChordPositions(chordName, state.useFlats)
          /\ threw' = FALSE
          /\ UNCHANGED <<state, locals, tables, timers>>

GetChordNotesCall ==
    /\ op = "idle"
    /\ \E root \in NoteRoots, quality \in NoteQualities :
          /\ op' = "getChordNotes"
          /\ arg' = [root |-> root, quality |-> quality]
          /\ ret' = getChordNotes(root, quality)
          /\ threw' = FALSE
          /\ UNCHANGED <<state, locals, tables, timers>>

\* arg.tokens and arg.separator record how the input text was put together:
\* the tokens joined by the separator, with or without a separator at the end
ParseProgressionCall ==
    /\ op = "idle"
    /\ \E idx \in SeqsUpTo(MaxTokens, Len(ProgTokens)), sep \in ProgSeparators, trailing \in BOOLEAN :
          LET tokens == [i \in 1..Len(idx) |-> ProgTokens[idx[i]]]
              input == Join(tokens, sep) \o (IF trailing THEN sep ELSE <<>>)
          IN /\ op' = "parseProgression"
             /\ arg' = [input |-> input, tokens |-> tokens, separator |-> sep]
             /\ ret' = parseProgression(input)
             /\ threw' = FALSE
             /\ UNCHANGED <<state, locals, tables, timers>>

OptimizeProgressionCall ==
    /\ op = "idle"
    /\ \E call \in OptimizerCalls :
          \E result \in {optimizeProgression(call[1], call[2][1], call[2][2],
                                             state.useFlats)} :
             /\ op' = "optimizeProgression"
             /\ arg' = [chordNames |-> call[1],
                        preferredFret |-> call[2][1], fretRange |-> call[2][2]]
             /\ ret' = result.value
             /\ threw' = result.threw
             /\ locals' = [allVoicings |-> result.allVoicings]
             /\ UNCHANGED <<state, tables, timers>>

\* a search is modelled from a page that shows nothing yet; the handlers
\* overwrite what an earlier search left
NothingShown == state.activeNotes = <<>> /\ state.progression.chords = <<>>

\* the search button and the Enter key
PerformSearchEnhanced ==
    /\ op = "idle"
    /\ NothingShown
    /\ \E idx \in SeqsUpTo(MaxTokens, Len(SearchTokens)) \cup {<<>>}, sep \in SearchSeparators :
          \E query \in {Join([i \in 1..Len(idx) |-> SearchTokens[idx[i]]], sep)} :
          \E chords \in {parseProgression(query)} :
             /\ op' = "performSearchEnhanced"
             /\ arg' = [query |-> query]
             /\ ret' = <<>>
             /\ IF isProgression(query) /\ Len(chords) > 1
                THEN \E loaded \in {loadProgression(state, chords)} :
                        /\ state' = loaded.state
                        /\ threw' = loaded.threw
                        /\ locals' = [optimized |-> loaded.optimized]
                ELSE /\ state' = performSearch(state, query)
                     /\ threw' = FALSE
                     /\ locals' = [optimized |-> <<>>]
             /\ UNCHANGED <<tables, timers>>

\* a click on the preview that showProgressionPreview rendered for the text
\* typed into the search box
ProgressionPreviewClick ==
    /\ op = "idle"
    /\ NothingShown
    /\ \E idx \in SeqsUpTo(MaxTokens, Len(SearchTokens)), sep \in SearchSeparators :
          \E input \in {Join([i \in 1..Len(idx) |-> SearchTokens[idx[i]]], sep)} :
          \E chords \in {parseProgression(input)} :
             /\ isProgression(input)
             /\ chords # <<>>
             /\ \E loaded \in {loadProgression(state, chords)} :
                   /\ op' = "progressionPreviewClick"
                   /\ arg' = [query |-> input]
                   /\ ret' = <<>>
                   /\ state' = loaded.state
                   /\ threw' = loaded.threw
                   /\ locals' = [optimized |-> loaded.optimized]
                   /\ UNCHANGED <<tables, timers>>

HandleSearchCall ==
    /\ op = "idle"
    /\ \E query \in SongQueries :
          /\ op' = "handleSearch"
          /\ arg' = [query |-> query]
          /\ ret' = handleSearch(query)
          /\ threw' = FALSE
          /\ UNCHANGED <<state, locals, tables, timers>>

FindChordShapeCall ==
    /\ op = "idle"
    /\ \E root \in ResolverRoots, quality \in Qualities :
          /\ op' = "findChordShape"
          /\ arg' = [root |-> root, quality |-> quality]
          /\ ret' = findChordShape(root, quality)
          /\ threw' = FALSE
          /\ UNCHANGED <<state, locals, tables, timers>>

\* the progression bar exists once a progression is loaded
BarRendered == state.progression.chords # <<>>

\* loadProgression with a parsed chord list and the default options
LoadProgressionCall ==
    /\ op = "idle"
    /\ \E chords \in PlayerProgressions :
          \E loaded \in {loadProgression(state, chords)} :
             /\ op' = "loadProgression"
             /\ arg' = [chords |-> chords]
             /\ ret' = <<>>
             /\ state' = loaded.state
             /\ threw' = loaded.threw
             /\ locals' = [optimized |-> loaded.optimized]
             /\ UNCHANGED <<tables, timers>>

\* a click on a chord chip, or goToChord called with any other number
GoToChordCall ==
    /\ op = "idle"
    /\ \E index \in GoToIndices :
          /\ op' = "goToChord"
          /\ arg' = [index |-> index]
          /\ ret' = <<>>
          /\ state' = goToChord(state, index)
          /\ threw' = FALSE
          /\ UNCHANGED <<locals, tables, timers>>

\* the Next button
NextChordClick ==
    /\ op = "idle"
    /\ BarRendered
    /\ op' = "nextChord"
    /\ arg' = [none |-> TRUE]
    /\ ret' = <<>>
    /\ state' = nextChord(state)
    /\ threw' = FALSE
    /\ UNCHANGED <<locals, tables, timers>>

\* the Prev button
PrevChordClick ==
    /\ op = "idle"
    /\ BarRendered
    /\ op' = "prevChord"
    /\ arg' = [none |-> TRUE]
    /\ ret' = <<>>
    /\ state' = prevChord(state)
    /\ threw' = FALSE
    /\ UNCHANGED <<locals, tables, timers>>

\* the Loop button
ToggleLoopClick ==
    /\ op = "idle"
    /\ BarRendered
    /\ op' = "toggleLoop"
    /\ arg' = [none |-> TRUE]
    /\ ret' = <<>>
    /\ state' = toggleLoop(state)
    /\ threw' = FALSE
    /\ UNCHANGED <<locals, tables, timers>>

\* the Play / Pause button
TogglePlayClick ==
    /\ op = "idle"
    /\ BarRendered
    /\ state.progression.isPlaying \/ Cardinality(timers.active) < MaxTimers
    /\ \E w \in {togglePlay(World(state, timers))} :
          /\ op' = "togglePlay"
          /\ arg' = [none |-> TRUE]
          /\ ret' = <<>>
          /\ state' = w.state
          /\ timers' = w.timers
          /\ threw' = FALSE
          /\ UNCHANGED <<locals, tables>>

\* the tempo slider moved
TempoInput ==
    /\ op = "idle"
    /\ BarRendered
    /\ \E value \in Tempos :
          \E w \in {tempoInput(World(state, timers), value)} :
             /\ op' = "tempoInput"
             /\ arg' = [value |-> value]
             /\ ret' = <<>>
             /\ state' = w.state
             /\ timers' = w.timers
             /\ threw' = FALSE
             /\ UNCHANGED <<locals, tables>>

\* a key pressed
KeyDown ==
    /\ op = "idle"
    /\ \E key \in Keys, tagName \in TagNames :
          /\ \/ key # " "
             \/ state.progression.isPlaying
             \/ Cardinality(timers.active) < MaxTimers
          /\ \E w \in {keydown(World(state, timers), key, tagName)} :
                /\ op' = "keydown"
                /\ arg' = [key |-> key, tagName |-> tagName]
                /\ ret' = <<>>
                /\ state' = w.state
                /\ timers' = w.timers
                /\ threw' = FALSE
                /\ UNCHANGED <<locals, tables>>

\* an interval timer fires: its callback calls nextChord
TimerTick ==
    /\ op = "idle"
    /\ \E id \in timers.active :
          /\ op' = "tick"
          /\ arg' = [timer |-> id]
          /\ ret' = <<>>
          /\ state' = nextChord(state)
          /\ threw' = FALSE
          /\ UNCHANGED <<locals, tables, timers>>

DisplayChordCall ==
    /\ op = "idle"
    /\ \E chordName \in DisplayChords :
          /\ op' = "displayChord"
          /\ arg' = [chordName |-> chordName]
          /\ ret' = <<>>
          /\ state' = displayChord(state, chordName)
          /\ threw' = FALSE
          /\ UNCHANGED <<locals, tables, timers>>

\* displayVoicing with a voicing of the generator, or with none
DisplayVoicingCall ==
    /\ op = "idle"
    /\ \E chord \in DisplayVoicingChords :
          \E voicings \in {generateAllVoicings(Str(chord), DefaultMaxFret, state.useFlats)} :
          \E voicing \in {voicings[v] : v \in 1..Len(voicings)} \cup {nullObj} :
             /\ op' = "displayVoicing"
             /\ arg' = [voicing |-> voicing]
             /\ ret' = <<>>
             /\ state' = displayVoicing(state, voicing)
             /\ threw' = FALSE
             /\ UNCHANGED <<locals, tables, timers>>

\* the handler has returned: control goes back to the event loop
Return ==
    /\ op # "idle"
    /\ op' = "idle"
    /\ arg' = [none |-> TRUE]
    /\ ret' = <<>>
    /\ threw' = FALSE
    /\ locals' = noLocals
    /\ UNCHANGED <<state, tables, timers>>

Next ==
    \/ Return
    \/ SetNotationMode
    \/ ParseChordNameCall
    \/ GenerateAllVoicingsCall
    \/ CalculateChordPositionsCall
    \/ GetChordNotesCall
    \/ ParseProgressionCall
    \/ OptimizeProgressionCall

Spec == Init /\ [][Next]_vars

\* the chord-name parser alone
NextParser == Return \/ SetNotationMode \/ ParseChordNameCall
SpecParser == Init /\ [][NextParser]_vars

\* the note speller alone
NextNotes == Return \/ SetNotationMode \/ GetChordNotesCall
SpecNotes == Init /\ [][NextNotes]_vars

\* the two producers of fingerings
NextVoicings == Return \/ SetNotationMode \/ GenerateAllVoicingsCall \/ CalculateChordPositionsCall
SpecVoicings == Init /\ [][NextVoicings]_vars

\* the progression parser alone
NextProgression == Return \/ SetNotationMode \/ ParseProgressionCall
SpecProgression == Init /\ [][NextProgression]_vars

\* the search box: the handlers that reach the optimizer
NextSearch == Return \/ SetNotationMode \/ PerformSearchEnhanced \/ ProgressionPreviewClick
SpecSearch == Init /\ [][NextSearch]_vars

\* the optimizer alone
NextOptimizer == Return \/ SetNotationMode \/ OptimizeProgressionCall
SpecOptimizer == Init /\ [][NextOptimizer]_vars

\* the progression player: loading, navigation, auto-play
NextPlayer ==
    \/ Return
    \/ LoadProgressionCall
    \/ GoToChordCall
    \/ NextChordClick
    \/ PrevChordClick
    \/ ToggleLoopClick
    \/ TogglePlayClick
    \/ TempoInput
    \/ KeyDown
    \/ TimerTick
SpecPlayer == Init /\ [][NextPlayer]_vars

\* the two display functions
NextDisplay == Return \/ SetNotationMode \/ DisplayChordCall \/ DisplayVoicingCall
SpecDisplay == Init /\ [][NextDisplay]_vars

\* the single-voicing resolver's choice of a shape
NextResolver == Return \/ SetNotationMode \/ FindChordShapeCall
SpecResolver == Init /\ [][NextResolver]_vars

\* the chord-or-song decision of the search box
NextSongs == Return \/ SetNotationMode \/ HandleSearchCall
SpecSongs == Init /\ [][NextSongs]_vars

---------------------------------------------------------------------------
(* Claims about the chord-name parser *)

UpperRootTexts == {r \in RootTexts : r[1] \in {"A", "B", "C", "D", "E", "F", "G"}}

\* C3: for every root and every canonical quality text of the rule table,
\* parseChordName(root + text) returns that root, the quality the table
\* maps the text to, and bass null (so F#maj7 gives F#, maj7, null)
C3_CanonicalTable ==
    op = "parseChordName" =>
        \A r \in UpperRootTexts : \A i \in 1..Len(CanonicalTexts) :
            arg.chordName = Str(r \o CanonicalTexts[i]) =>
                ret = [root |-> r, quality |-> CanonicalQuality[i], bass |-> null]

\* C4: the minor-seventh marker is not shadowed by the major-seventh rule
\* nor the other way round: for every root, quality text m7 or min7 gives
\* m7 and quality text M7 gives maj7
C4_SeventhPrecedence ==
    op = "parseChordName" =>
        \A r \in RootTexts :
            /\ arg.chordName \in {Str(r \o <<"m","7">>), Str(r \o <<"m","i","n","7">>)}
                  => (ret # nullObj /\ ret.root = <<ToUpperChar(r[1])>> \o Tail(r)
                                    /\ ret.quality = "m7")
            /\ arg.chordName = Str(r \o <<"M","7">>)
                  => (ret # nullObj /\ ret.root = <<ToUpperChar(r[1])>> \o Tail(r)
                                    /\ ret.quality = "maj7")

\* C4 witness: B flat with the minor marker and B flat with the major marker
\* have both been parsed
C4_Witness ==
    /\ op = "parseChordName"
    /\ arg.chordName \in {Str(<<"B","b","m","i","n","7">>), Str(<<"B","b","M","7">>)}
    /\ ret.quality \in {"m7", "maj7"}

\* whether a text, once trimmed, begins with a letter A-G in either case
BeginsWithRootLetter(chars) ==
    /\ Trim(chars) # <<>>
    /\ ToUpperChar(Trim(chars)[1]) \in {"A", "B", "C", "D", "E", "F", "G"}

\* C5: parseChordName never throws; it returns null exactly when the input
\* is not a string, is empty once trimmed, or does not begin with a letter
\* A-G; otherwise it returns a chord symbol with a quality of the table;
\* generateAllVoicings and calculateChordPositions return the empty list
\* when parsing fails
C5_NullOnlyOnBadRoot ==
    /\ op = "parseChordName" =>
          /\ ~threw
          /\ (ret = nullObj) <=>
                (~arg.chordName.isString \/ ~BeginsWithRootLetter(arg.chordName.chars))
          /\ ret # nullObj => ret.quality \in Qualities
    /\ op \in {"generateAllVoicings", "calculateChordPositions"} =>
          /\ ~threw
          /\ (~arg.chordName.isString \/ ~BeginsWithRootLetter(arg.chordName.chars))
                => ret = <<>>

---------------------------------------------------------------------------
(* Claims about the progression parser *)

HasSpace(chars) == \E i \in 1..Len(chars) : IsSpace(chars[i])

\* the tokens of a list that parse as chords, in their order
ParsingTokens(tokens) == Filter(tokens, {i \in 1..Len(tokens) : Parses(tokens[i])})

C7_RetryAllOrNothing ==
    op = "parseProgression" =>
        LET parts == TrimmedNonEmpty(SplitPrimary(arg.input))
            spaceParts == SplitSpaces(Trim(arg.input))
            allParse == \A i \in 1..Len(spaceParts) : Parses(spaceParts[i])
        IN Len(parts) = 1 =>
              /\ (Len(spaceParts) > 1 /\ allParse) => ret = spaceParts
              /\ ~(Len(spaceParts) > 1 /\ allParse) =>
                    ret = (IF Parses(parts[1]) THEN <<parts[1]>> ELSE <<>>)

\* C7 witness: "C xx" has one primary token and a white-space token that is
\* no chord; the result is the single token "C xx"
C7_Witness ==
    /\ op = "parseProgression"
    /\ arg.input = <<"C"," ","x","x">>
    /\ ret = << <<"C"," ","x","x">> >>

\* the retry taken: "Am C G" parsed to its three chords
C7_RetryTaken ==
    /\ op = "parseProgression"
    /\ arg.input = <<"A","m"," ","C"," ","G">>
    /\ ret = << <<"A","m">>, <<"C">>, <<"G">> >>

---------------------------------------------------------------------------
(* Claims about the voicing generator *)

\* the pitch class a position sounds, from the open strings and the fret
PitchClassAt(position) == (OPEN_STRING_NOTES[position.string] + position.fret) % 12

\* C8: for every chord name and every maxFret, the list generateAllVoicings
\* returns is in non-decreasing order of avgFret
C8_SortedByAvgFret ==
    op = "generateAllVoicings" =>
        \A i \in 1..Len(ret) : \A k \in 1..Len(ret) :
            i < k => ret[i].avgFret <= ret[k].avgFret

\* C8 witness: a returned list in which a family that comes later in the
\* table stands before one that comes earlier
C8_Witness ==
    /\ op = "generateAllVoicings"
    /\ \E i \in 1..Len(ret) : \E k \in 1..Len(ret) :
          /\ i < k
          /\ ret[i].shapeName = "C-shape"
          /\ ret[k].shapeName = "E-shape"
          /\ ret[i].avgFret < ret[k].avgFret

\* C9: every position of every voicing generateAllVoicings returns has its
\* string in 1..6 and its fret in 0..maxFret, and no voicing has two
\* positions on one string
C9_PositionsInRange ==
    op = "generateAllVoicings" =>
        \A v \in 1..Len(ret) :
            LET positions == ret[v].positions
            IN /\ \A i \in 1..Len(positions) :
                     /\ positions[i].string \in 1..6
                     /\ positions[i].fret >= 0
                     /\ positions[i].fret <= arg.maxFret
               /\ \A i \in 1..Len(positions) : \A k \in 1..Len(positions) :
                     i # k => positions[i].string # positions[k].string

\* C9 witness: a fret limit that cuts some family off while another family
\* still fits and reaches the limit itself
C9_Witness ==
    /\ op = "generateAllVoicings"
    /\ Len(ret) \in 1..4
    /\ \E v \in 1..Len(ret) : \E i \in 1..Len(ret[v].positions) :
          ret[v].positions[i].fret = arg.maxFret /\ arg.maxFret > 0

C10_ResolverWitness ==
    /\ op = "calculateChordPositions"
    /\ arg.chordName = Str(<<"B","b","m","7">>)
    /\ \E i \in 1..Len(ret) : ret[i].isRoot /\ ret[i].fret > 0
    /\ \E i \in 1..Len(ret) : ~ret[i].isRoot

---------------------------------------------------------------------------
(* Claims about the progression optimizer *)

AllParse(chordNames) == \A i \in 1..Len(chordNames) : Parses(chordNames[i])

\* movementCost(A, B) = 2|avgFret(A) - avgFret(B)| + 0.5|fretSpan(A) - fretSpan(B)|
\* - (1 if same shape family), in sixtieths
C1_MovementCost(a, b) ==
    2 * Abs(a.avgFret - b.avgFret) + 30 * Abs(a.fretSpan - b.fretSpan)
      - (IF a.shapeName = b.shapeName THEN 60 ELSE 0)

\* the cumulative cost of a sequence of voicings, in sixtieths
C1_PathCost(vs, preferredFret) ==
    Abs(vs[1].avgFret - 60 * preferredFret)
      + SumSeq([i \in 1..(Len(vs) - 1) |-> C1_MovementCost(vs[i], vs[i + 1])])

\* C1: for a non-empty list of chord names that parse, the sequence that
\* optimizeProgression returns picks one candidate per chord and no such
\* sequence has a lower cumulative cost; for a single chord it is a
\* candidate closest to preferredFret
C1_MinimumCost ==
    (op = "optimizeProgression" /\ Len(arg.chordNames) >= 1 /\ AllParse(arg.chordNames)) =>
        LET n == Len(arg.chordNames)
            cands == ArrayOf([i \in 1..n |->
                        Candidates(arg.chordNames[i], arg.preferredFret, arg.fretRange,
                                   state.useFlats)])
            picks == {f \in [1..n -> 1..Len(CAGED_SHAPES)] : \A i \in 1..n : f[i] <= Len(cands[i])}
            mine == C1_PathCost(ret, arg.preferredFret)
        IN /\ ~threw
           /\ \E f \in picks : ret = [i \in 1..n |-> cands[i][f[i]]]
           /\ \A f \in picks : mine <= C1_PathCost([i \in 1..n |-> cands[i][f[i]]], arg.preferredFret)
           /\ n = 1 => \A k \in 1..Len(cands[1]) :
                          Abs(ret[1].avgFret - 60 * arg.preferredFret)
                             <= Abs(cands[1][k].avgFret - 60 * arg.preferredFret)

\* C1 witness: a progression of three chords whose returned sequence
\* has a negative movement cost between two voicings of one shape family
\* and changes family elsewhere
C1_Witness ==
    /\ op = "optimizeProgression"
    /\ Len(arg.chordNames) = 3
    /\ ~threw
    /\ \E i \in 1..2 : C1_MovementCost(ret[i], ret[i + 1]) < 0
    /\ \E i \in 1..2 : ret[i].shapeName # ret[i + 1].shapeName

\* C2: for n >= 1 chord names that parse, optimizeProgression returns n
\* voicings and the i-th is a voicing of the i-th chord name, carrying that
\* name; for the empty list it returns the empty list
C2_OneVoicingPerChord ==
    (op = "optimizeProgression" /\ AllParse(arg.chordNames)) =>
        /\ ~threw
        /\ Len(ret) = Len(arg.chordNames)
        /\ \A i \in 1..Len(ret) :
              LET voicings == generateAllVoicings(Str(arg.chordNames[i]), DefaultMaxFret,
                                                  state.useFlats)
              IN /\ \E k \in 1..Len(voicings) : ret[i] = voicings[k]
                 /\ ret[i].chordName = arg.chordNames[i]

\* C2 witness: three chords, one of which has no voicing within the fret
\* range, have been given three voicings
C2_Witness ==
    /\ op = "optimizeProgression"
    /\ Len(arg.chordNames) = 3
    /\ AllParse(arg.chordNames)
    /\ Len(ret) = 3
    /\ \E i \in 1..3 :
          InRange(generateAllVoicings(Str(arg.chordNames[i]), DefaultMaxFret, state.useFlats),
                  arg.preferredFret, arg.fretRange) = <<>>

\* the empty list has been optimized to the empty list
C2_EmptyWitness ==
    /\ op = "optimizeProgression"
    /\ arg.chordNames = <<>>
    /\ ret = <<>>
    /\ ~threw

---------------------------------------------------------------------------
(* Further claims about the voicing generator *)

\* the frets of a voicing, string 6 first, -1 for a string without position
FretsByString(voicing) ==
    [i \in 1..6 |->
        IF \E k \in 1..Len(voicing.positions) : voicing.positions[k].string = 6 - (i - 1)
        THEN voicing.positions[CHOOSE k \in 1..Len(voicing.positions) :
                                  voicing.positions[k].string = 6 - (i - 1)].fret
        ELSE -1]

C12_VoicingStatistics ==
    op = "generateAllVoicings" =>
        \A v \in 1..Len(ret) :
            LET frets == [i \in 1..Len(ret[v].positions) |-> ret[v].positions[i].fret]
                all == {frets[i] : i \in 1..Len(frets)}
            IN /\ ret[v].baseFret = (IF all \ {0} = {} THEN 0 ELSE SetMin(all \ {0}))
               /\ ret[v].fretSpan = SetMax(all) - ret[v].baseFret
               /\ ret[v].fretSpan >= 0
               /\ ret[v].avgFret * Len(frets) = AvgScale * SumSeq(frets)

\* C12 witness: a voicing with open strings, whose baseFret is above the
\* least fret and whose avgFret counts the open strings
C12_Witness ==
    /\ op = "generateAllVoicings"
    /\ \E v \in 1..Len(ret) :
          /\ \E i \in 1..Len(ret[v].positions) : ret[v].positions[i].fret = 0
          /\ ret[v].baseFret = 2
          /\ ret[v].fretSpan = 1
          /\ ret[v].avgFret = 105

---------------------------------------------------------------------------
(* Claims about the note speller *)

\* the pitch class a root spelling names: the letter's semitone, one up for
\* a sharp and one down for a flat
SpelledPitchClass(root) ==
    LET letter == CASE root[1] = "C" -> 0 [] root[1] = "D" -> 2 [] root[1] = "E" -> 4
                    [] root[1] = "F" -> 5 [] root[1] = "G" -> 7 [] root[1] = "A" -> 9
                    [] root[1] = "B" -> 11
        shift == IF Len(root) = 1 THEN 0 ELSE IF root[2] = "#" THEN 1 ELSE -1
    IN (letter + shift + 12) % 12

\* the root spellings the semitone table recognises
RecognisedRoots == UpperRootTexts \ {<<"E","#">>, <<"B","#">>, <<"F","b">>, <<"C","b">>}

---------------------------------------------------------------------------
(* Claims about the optimizer's candidates *)

\* C14: the candidates of each chord are exactly the generateAllVoicings
\* results whose avgFret lies in [preferredFret - fretRange, preferredFret +
\* fretRange], in their order; a chord whose filtered set is empty uses its
\* full set, whatever the other chords use
C14_CandidatesPerChord ==
    op = "optimizeProgression" =>
        /\ Len(locals.allVoicings) = Len(arg.chordNames)
        /\ \A i \in 1..Len(arg.chordNames) :
              LET all == generateAllVoicings(Str(arg.chordNames[i]), DefaultMaxFret,
                                             state.useFlats)
                  lo == AvgScale * (arg.preferredFret - arg.fretRange)
                  hi == AvgScale * (arg.preferredFret + arg.fretRange)
                  keep == {k \in 1..Len(all) : lo <= all[k].avgFret /\ all[k].avgFret <= hi}
              IN locals.allVoicings[i] = IF keep = {} THEN all ELSE Filter(all, keep)

\* C14 witness: one chord falls back to its full set while its neighbour
\* keeps a filtered one
C14_Witness ==
    /\ op = "optimizeProgression"
    /\ Len(arg.chordNames) = 2
    /\ \E i, k \in 1..2 :
          /\ Len(locals.allVoicings[i]) = 5
          /\ \A m \in 1..5 :
                \/ locals.allVoicings[i][m].avgFret < AvgScale * (arg.preferredFret - arg.fretRange)
                \/ locals.allVoicings[i][m].avgFret > AvgScale * (arg.preferredFret + arg.fretRange)
          /\ Len(locals.allVoicings[k]) \in 1..4

\* the template a chord's open voicing is read from: the family named after
\* its root, at the parsed quality
OpenTemplate(chord) ==
    LET parsed == parseChordName(Str(chord))
        family == CHOOSE f \in 1..Len(CAGED_SHAPES) : <<CAGED_SHAPES[f].shapeName>> = parsed.root
    IN CAGED_SHAPES[family].shapes[parsed.quality]

\* whether a chord has an open root and a quality with templates of its own
HasOpenVoicing(chord) ==
    /\ Parses(chord)
    /\ parseChordName(Str(chord)).root \in {<<"E">>, <<"A">>, <<"D">>, <<"G">>, <<"C">>}
    /\ parseChordName(Str(chord)).quality \in {"major", "minor", "7", "m7", "maj7"}

\* C15: for two chords with roots in {E, A, D, G, C} and qualities that have
\* templates, optimizeProgression with preferredFret 0 and fretRange 12
\* returns for each chord the untransposed voicing of the family named after
\* its root, and no pair of candidates has a lower total cost
C15_OpenVoicingsChosen ==
    (/\ op = "optimizeProgression"
     /\ arg.preferredFret = 0 /\ arg.fretRange = 12
     /\ Len(arg.chordNames) = 2
     /\ \A i \in 1..2 : HasOpenVoicing(arg.chordNames[i])) =>
        LET cands(i) ==
                LET all == generateAllVoicings(Str(arg.chordNames[i]), DefaultMaxFret,
                                               state.useFlats)
                IN {all[k] : k \in {m \in 1..Len(all) : all[m].avgFret <= 12 * 60}}
        IN /\ ~threw
           /\ Len(ret) = 2
           /\ \A i \in 1..2 :
                 /\ ret[i].shapeName = OpenTemplate(arg.chordNames[i]).name
                 /\ FretsByString(ret[i]) = OpenTemplate(arg.chordNames[i]).strings
           /\ \A a \in cands(1), b \in cands(2) :
                 C1_PathCost(ret, 0) <= C1_PathCost(<<a, b>>, 0)

---------------------------------------------------------------------------
(* Claims about the notation flag and the application state *)

CoreOperations == {"parseChordName", "getChordNotes", "calculateChordPositions",
                   "generateAllVoicings", "parseProgression", "optimizeProgression"}

\* the result of running the last operation again on the same arguments
\* under the notation flag useFlats
Rerun(useFlats) ==
    CASE op = "parseChordName" -> parseChordName(arg.chordName)
      [] op = "getChordNotes" -> getChordNotes(arg.root, arg.quality)
      [] op = "calculateChordPositions" -> calculateChordPositions(arg.chordName, useFlats)
      [] op = "generateAllVoicings" ->
             generateAllVoicings(arg.chordName, arg.maxFret, useFlats)
      [] op = "optimizeProgression" ->
             optimizeProgression(arg.chordNames, arg.preferredFret, arg.fretRange,
                                 useFlats).value

\* C16: the notation flag is display-only: what parseChordName,
\* getChordNotes, calculateChordPositions, generateAllVoicings and
\* optimizeProgression return (strings, frets, isRoot flags, statistics) is
\* what they return on the same arguments under the opposite flag
C16_FlagIsDisplayOnly ==
    op \in (CoreOperations \ {"parseProgression"}) => ret = Rerun(~state.useFlats)

\* C16 witness: flat notation is on and a chord with a sharp root has been
\* fingered, its root found on a string whose note is now spelled with a flat
C16_Witness ==
    /\ state.useFlats
    /\ op = "calculateChordPositions"
    /\ arg.chordName = Str(<<"F","#","m">>)
    /\ \E i \in 1..Len(ret) :
          /\ ret[i].isRoot
          /\ getNoteAtPosition(ret[i].string, ret[i].fret, TRUE) = <<"G","b">>

\* C17: parseChordName, getChordNotes, calculateChordPositions,
\* generateAllVoicings, parseProgression and optimizeProgression leave the
\* application state (activeNotes, currentChord, useFlats, progression) and
\* the static tables (note names, interval sets, shape templates) as they
\* found them
C17_CoreLeavesStateAlone ==
    [][op' \in CoreOperations => (state' = state /\ tables' = tables)]_vars

\* C17 witness: with flat notation switched on, the optimizer has returned
\* three voicings and the flag and the tables are as it found them
C17_Witness ==
    /\ op = "optimizeProgression"
    /\ ~threw
    /\ Len(ret) = 3
    /\ state.useFlats
    /\ tables = StaticTables

---------------------------------------------------------------------------
(* Claims about the search handlers *)

\* C18: every chord list that performSearchEnhanced or the preview click
\* hands to optimizeProgression holds only chord names that parse and have
\* at least one voicing, and the handler does not end by throwing
C18_CallersPreValidate ==
    op \in {"performSearchEnhanced", "progressionPreviewClick"} =>
        /\ ~threw
        /\ \A c \in 1..Len(locals.optimized) :
              \A i \in 1..Len(locals.optimized[c]) :
                 /\ Parses(locals.optimized[c][i])
                 /\ generateAllVoicings(Str(locals.optimized[c][i]), DefaultMaxFret,
                                        state.useFlats) # <<>>

\* C18 witness: a search text with a token that names no chord and a chord
\* whose root the semitone table lacks: the first is dropped, the second
\* reaches the optimizer and gets a voicing
C18_Witness ==
    /\ op = "performSearchEnhanced"
    /\ arg.query = <<"x","x",","," ","E","#","d","i","m",","," ","A","m">>
    /\ locals.optimized = << << <<"E","#","d","i","m">>, <<"A","m">> >> >>
    /\ Len(state.progression.voicings) = 2
    /\ state.activeNotes # <<>>

---------------------------------------------------------------------------
(* Claims about the approximated qualities *)

\* whether every voicing returned by generateAllVoicings is a family's
\* template of quality templateQuality, moved up by the transpose to the root
UsesTemplates(templateQuality) ==
    LET parsed == parseChordName(arg.chordName)
    IN \A v \in 1..Len(ret) :
          \E f \in 1..Len(CAGED_SHAPES) :
             LET template == CAGED_SHAPES[f].shapes[templateQuality]
                 transpose == (getNoteIndex(parsed.root)
                                 - getNoteIndex(<<CAGED_SHAPES[f].shapeName>>) + 12) % 12
             IN /\ ret[v].shapeName = template.name
                /\ FretsByString(ret[v]) =
                      [i \in 1..6 |-> IF template.strings[i] >= 0
                                      THEN template.strings[i] + transpose ELSE -1]

\* the quality of the chord name handed to generateAllVoicings
ParsedQuality == parseChordName(arg.chordName).quality

\* C19, as claimed: every quality outside {major, minor, 7, m7, maj7} is
\* generated from the major or the minor templates; diminished, augmented
\* and suspended (sus2, sus4) use the major templates and minor uses the
\* minor templates
C19_ApproximatedToMajor ==
    (op = "generateAllVoicings" /\ parseChordName(arg.chordName) # nullObj) =>
        /\ ParsedQuality \notin {"major", "minor", "7", "m7", "maj7"} =>
              (UsesTemplates("major") \/ UsesTemplates("minor"))
        /\ ParsedQuality \in {"dim", "aug", "sus2", "sus4"} => UsesTemplates("major")
        /\ ParsedQuality = "minor" => UsesTemplates("minor")

\* C19, amended: every quality outside {major, minor, 7, m7, maj7} is
\* generated from the major or the minor templates; diminished uses the
\* minor templates, augmented and suspended (sus2, sus4) use the major
\* templates, and minor uses the minor templates
C19_DiminishedToMinor ==
    (op = "generateAllVoicings" /\ parseChordName(arg.chordName) # nullObj) =>
        /\ ParsedQuality \notin {"major", "minor", "7", "m7", "maj7"} =>
              (UsesTemplates("major") \/ UsesTemplates("minor"))
        /\ ParsedQuality = "dim" => UsesTemplates("minor")
        /\ ParsedQuality \in {"aug", "sus2", "sus4"} => UsesTemplates("major")
        /\ ParsedQuality = "minor" => UsesTemplates("minor")

\* C19 witness: a diminished chord answered with five voicings, all of them
\* minor templates and not major ones
C19_Witness ==
    /\ op = "generateAllVoicings"
    /\ arg.chordName = Str(<<"B","b","d","i","m">>)
    /\ Len(ret) = 5
    /\ UsesTemplates("minor")
    /\ ~UsesTemplates("major")

---------------------------------------------------------------------------
(* Claims about the single-voicing resolver *)

\* the pitch classes of the chord's own tones, from its root and intervals
ToneSet(root, quality) ==
    LET notes == getChordNotes(root, quality)
    IN {getNoteIndex(notes[i]) : i \in 1..Len(notes)}

\* C20: when the shape table has no template for the quality (dim, sus4, 9
\* and the like), every position calculateChordPositions returns sounds a
\* pitch class of the chord's own tone set, and no string appears twice
C20_FallbackStaysInChord ==
    (/\ op = "calculateChordPositions"
     /\ parseChordName(arg.chordName) # nullObj
     /\ parseChordName(arg.chordName).quality \notin ShapeQualities) =>
        LET parsed == parseChordName(arg.chordName)
        IN /\ \A i \in 1..Len(ret) :
                 PitchClassAt(ret[i]) \in ToneSet(parsed.root, parsed.quality)
           /\ \A i, k \in 1..Len(ret) : ret[i].string = ret[k].string => i = k

---------------------------------------------------------------------------
(* Claims about the song search *)

\* the songs of the table with the given title
SongsTitled(title) == {i \in 1..Len(SONG_DATABASE) : SONG_DATABASE[i].title = title}

\* C21: handleSearch called with the title of a song of the table answers
\* type 'songs' with that song in the result
C21_TitleFindsSong ==
    (op = "handleSearch" /\ SongsTitled(arg.query) # {})
        => /\ ret.type = "songs"
           /\ \A i \in SongsTitled(arg.query) :
                 \E k \in 1..Len(ret.result) : ret.result[k] = SONG_DATABASE[i]

---------------------------------------------------------------------------
(* Claims about the single-voicing resolver *)

\* the semitones from the pitch class `from` up to the pitch class of root
SemitonesUp(from, root) == (getNoteIndex(root) - from + 12) % 12

\* the root has no entry of its own in the open-position table
NoOpenEntry(root, quality) ==
    root \notin OpenRoots \/ CHORD_SHAPES(root, quality) = nullObj

\* C22: for a root without an open-position entry for the quality,
\* findChordShape uses the movable template (E-shape, root on string 6, or
\* A-shape, root on string 5) whose distance to the root is smaller, the
\* A-shape on ties or when the distance from E exceeds 7, and transposes it
\* by that template's distance
C22_CloserTemplate ==
    (/\ op = "findChordShape"
     /\ getNoteIndex(arg.root) # -1
     /\ NoOpenEntry(arg.root, arg.quality)) =>
        LET fromE == SemitonesUp(4, arg.root)
            fromA == SemitonesUp(9, arg.root)
            aShape == fromA <= fromE \/ fromE > 7
        IN /\ ret # nullObj
           /\ ret.rootString = (IF aShape THEN 5 ELSE 6)
           /\ ret.transpose = (IF aShape THEN fromA ELSE fromE)

---------------------------------------------------------------------------
(* Claims about the tones of the templates *)

\* the chord's tone set: the root's pitch class plus each interval offset
\* of the quality, mod 12
ChordTones(root, quality) ==
    {(getNoteIndex(root) + CHORD_INTERVALS(quality)[i]) % 12 :
        i \in 1..Len(CHORD_INTERVALS(quality))}

\* the call parsed a chord with a recognised root and a template quality
TemplateChordCall ==
    /\ op \in {"generateAllVoicings", "calculateChordPositions"}
    /\ parseChordName(arg.chordName) # nullObj
    /\ getNoteIndex(parseChordName(arg.chordName).root) # -1
    /\ parseChordName(arg.chordName).quality \in ShapeQualities

\* C23: for a recognised root and a quality among major, minor, 7, m7 and
\* maj7, every position of every voicing generateAllVoicings returns, and of
\* the fingering calculateChordPositions returns, sounds a pitch class of
\* the chord's tone set
C23_TemplatesInChord ==
    TemplateChordCall =>
        LET parsed == parseChordName(arg.chordName)
            tones == ChordTones(parsed.root, parsed.quality)
        IN IF op = "generateAllVoicings"
           THEN \A v \in 1..Len(ret) : \A i \in 1..Len(ret[v].positions) :
                   PitchClassAt(ret[v].positions[i]) \in tones
           ELSE \A i \in 1..Len(ret) : PitchClassAt(ret[i]) \in tones

\* C23 witness: all five families of F sharp minor seventh come back above
\* the nut, and one of them sounds each of the four tones of the chord
C23_Witness ==
    /\ TemplateChordCall
    /\ op = "generateAllVoicings"
    /\ arg.chordName = Str(<<"F","#","m","7">>)
    /\ Len(ret) = 5
    /\ \A v \in 1..5 : ret[v].baseFret > 0
    /\ \E v \in 1..5 :
          {PitchClassAt(ret[v].positions[i]) : i \in 1..Len(ret[v].positions)} = {6, 9, 1, 4}

---------------------------------------------------------------------------
(* Claims about the number of voicings *)

\* the names the five families give their voicings
FamilyNames == {"E-shape", "A-shape", "D-shape", "C-shape", "G-shape"}

\* C24: with the default maxFret of 15, generateAllVoicings returns exactly
\* five voicings, one of each shape family, for every chord name that
\* parseChordName accepts, whatever its quality
C24_FiveVoicings ==
    (/\ op = "generateAllVoicings"
     /\ arg.maxFret = DefaultMaxFret
     /\ parseChordName(arg.chordName) # nullObj) =>
        /\ Len(ret) = 5
        /\ {ret[v].shapeName : v \in 1..Len(ret)} = FamilyNames

\* C24 witness: a chord of a quality without templates, on a root eleven
\* semitones above C, whose C-shape voicing reaches the fourteenth fret
C24_Witness ==
    /\ op = "generateAllVoicings"
    /\ arg.maxFret = DefaultMaxFret
    /\ parseChordName(arg.chordName) # nullObj
    /\ parseChordName(arg.chordName).quality = "sus4"
    /\ Len(ret) = 5
    /\ \E v \in 1..5 : /\ ret[v].shapeName = "C-shape"
                       /\ \E i \in 1..Len(ret[v].positions) : ret[v].positions[i].fret = 14

---------------------------------------------------------------------------
(* Claims about the root marker *)

\* C25: for every chord name parseChordName accepts, roots spelled E#, B#,
\* Fb or Cb included, every voicing generateAllVoicings returns and the
\* fingering calculateChordPositions returns has a position with isRoot
C25_RootMarked ==
    /\ (op = "generateAllVoicings" /\ parseChordName(arg.chordName) # nullObj) =>
          \A v \in 1..Len(ret) :
              \E i \in 1..Len(ret[v].positions) : ret[v].positions[i].isRoot
    /\ (op = "calculateChordPositions" /\ parseChordName(arg.chordName) # nullObj) =>
          \E i \in 1..Len(ret) : ret[i].isRoot

---------------------------------------------------------------------------
(* Claims about the progression player *)

\* C26: after any sequence of loadProgression, togglePlay, startPlay,
\* stopPlay, tempo changes and timer ticks, an interval timer is running if
\* and only if state.progression.isPlaying is true, and at most one interval
\* timer is running
C26_TimerIffPlaying ==
    /\ (timers.active # {}) <=> state.progression.isPlaying
    /\ Cardinality(timers.active) <= 1

---------------------------------------------------------------------------
(* Claims about the display functions *)

\* a displayChord call whose chord has at least one position, or a
\* displayVoicing call whose voicing has positions
DisplayedSomething ==
    \/ /\ op = "displayChord"
       /\ calculateChordPositions(Str(arg.chordName), state.useFlats) # <<>>
    \/ /\ op = "displayVoicing"
       /\ arg.voicing # nullObj
       /\ arg.voicing.positions # <<>>

\* C27: after displayChord(name) for a chord with at least one position,
\* and after displayVoicing(v) for a voicing with positions,
\* state.currentChord is the displayed chord's name and state.activeNotes
\* holds exactly the displayed positions
C27_DisplayedChordRecorded ==
    DisplayedSomething =>
        IF op = "displayChord"
        THEN /\ state.currentChord = arg.chordName
             /\ state.activeNotes = calculateChordPositions(Str(arg.chordName), state.useFlats)
        ELSE /\ state.currentChord = arg.voicing.chordName
             /\ state.activeNotes = arg.voicing.positions

---------------------------------------------------------------------------
(* Claims about navigation *)

\* a progression is loaded
ProgressionLoaded == state.progression.chords # <<>>

\* the index is one of a voicing, and there is a voicing for each chord
IndexInRange ==
    ProgressionLoaded =>
        /\ 0 <= state.progression.currentIndex
        /\ state.progression.currentIndex < Len(state.progression.voicings)
        /\ Len(state.progression.voicings) = Len(state.progression.chords)

\* a goToChord step with an index outside the voicings
OutOfRangeStep ==
    /\ op' = "goToChord"
    /\ arg'.index < 0 \/ arg'.index >= Len(state.progression.voicings)

\* C28: after any sequence of loadProgression with parsed chord lists,
\* goToChord with any integer, nextChord, prevChord, toggleLoop, number keys
\* and auto-play ticks, 0 <= currentIndex < voicings.length whenever a
\* progression is loaded, voicings is as long as chords, and goToChord with
\* an index out of range leaves the state unchanged
C28_IndexStaysInRange ==
    /\ []IndexInRange
    /\ [][OutOfRangeStep => (state' = state /\ timers' = timers)]_vars

\* C28 witness: goToChord was called with the index one past the last of a
\* three-chord progression being played, and the index stayed at the last
C28_Witness ==
    /\ op = "goToChord"
    /\ Len(state.progression.voicings) = 3
    /\ arg.index = 3
    /\ state.progression.currentIndex = 2
    /\ state.progression.isPlaying

\* the step ran nextChord: the Next button, the right arrow key or a tick
NextChordStep ==
    \/ op' \in {"nextChord", "tick"}
    \/ op' = "keydown" /\ arg'.key = "ArrowRight" /\ arg'.tagName # "INPUT"

\* the step ran prevChord: the Prev button or the left arrow key
PrevChordStep ==
    \/ op' = "prevChord"
    \/ op' = "keydown" /\ arg'.key = "ArrowLeft" /\ arg'.tagName # "INPUT"

\* the index of the last chord
LastIndex == Len(state.progression.voicings) - 1

\* C29: nextChord at the last chord moves to index 0 when loop is enabled
\* and stays at the last index when it is disabled; prevChord at index 0
\* moves to the last index when loop is enabled and stays at 0 when it is
\* disabled; otherwise they move the index by exactly +1 and -1
C29_StepAndWrap ==
    [][ProgressionLoaded =>
          LET index == state.progression.currentIndex
              loop == state.progression.loopEnabled
          IN /\ NextChordStep =>
                   state'.progression.currentIndex =
                       (IF index = LastIndex THEN (IF loop THEN 0 ELSE LastIndex)
                        ELSE index + 1)
             /\ PrevChordStep =>
                   state'.progression.currentIndex =
                       (IF index = 0 THEN (IF loop THEN LastIndex ELSE 0)
                        ELSE index - 1)]_vars

\* C29 witness: nextChord has run on a three-chord progression with loop
\* enabled and the index is 0, which only the wrap from the last chord gives
C29_Witness ==
    /\ op = "nextChord"
    /\ Len(state.progression.voicings) = 3
    /\ state.progression.loopEnabled
    /\ state.progression.currentIndex = 0

---------------------------------------------------------------------------
(* Claims about the quality rules *)

\* the quality text parseChordName classifies: what follows the root letter
\* and the accidental, up to the first slash
QualityPartOf(chars) ==
    LET s == Trim(chars)
        hasAcc == Len(s) >= 2 /\ s[2] \in {"#", "b"}
        rest == SubSeq(s, (IF hasAcc THEN 3 ELSE 2), Len(s))
    IN SplitSlash(rest)[1]

\* the quality of the first rule one of whose alternatives begins the text,
\* 'major' when there is none
PrefixQuality(text) ==
    LET hits == {r \in 1..Len(qualityPatterns) :
                    \E a \in 1..Len(qualityPatterns[r].alts) :
                        StartsWith(text, qualityPatterns[r].alts[a].text,
                                   qualityPatterns[r].ci)}
    IN IF hits = {} THEN "major" ELSE qualityPatterns[SetMin(hits)].quality

\* C30: every quality rule of parseChordName tests only the start of the
\* quality text, so the quality is the one the first rule that begins the
\* text gives; a hyphen past the first character changes nothing, and the
\* texts "7-9" and "9-5" are classified as 7 and 9
C30_PrefixDecides ==
    (op = "parseChordName" /\ ret # nullObj) =>
        ret.quality = PrefixQuality(QualityPartOf(arg.chordName.chars))

=============================================================================
